---------------------------- MODULE Spec2Model ----------------------------
(***************************************************************************)
(* A model of the `weather` command line tool: the configuration store     *)
(* (AppConfig: load, RwLock, with_mut, atomic save), the provider parser   *)
(* and the resolution layer of the `get` command.                          *)
(*                                                                         *)
(* Strings are sequences of one-character strings, so that lower-casing,   *)
(* comparison and ordering are computed character by character.            *)
(***************************************************************************)
EXTENDS Integers, Sequences, FiniteSets, TLC

VARIABLES
    fs,         \* the file system: path -> [exists, data, synced]
    phase,      \* per process: "closed", or "open" once APP_STATE holds an AppConfig
    settings,   \* per process: the Settings behind the RwLock
    lock,       \* per process: the RwLock state [writer, readers]
    pc,         \* per thread: position in the running command
    loc,        \* per thread: the locals of the running command
    threads,    \* the threads that exist in this run
    faults,     \* how many failures and crashes the environment has injected
    netCalls,   \* per thread: provider fetches started by the running command
    clean,      \* history: per process, settings as the last finished mutator (or load) left them
    lastSave,   \* history: [old, new]: the live file before the running (or interrupted) save and
                \*          the document that save writes; outside a save both are the live file
    opened,     \* history: per process, [fresh, from]: the file system as AppConfig::new found it,
                \*          fresh until the process runs its first command
    fileOrigin  \* history: the Settings value whose save produced the live file, or None

vars == <<fs, phase, settings, lock, pc, loc, threads, faults, netCalls, clean, lastSave, opened, fileOrigin>>

\* Option<T>: None is the empty tuple, Some(x) the one-element tuple.
None == <<>>
Some(x) == <<x>>
Unwrap(o) == o[1]

\* A path that names no file.
NoFile == [exists |-> FALSE, data |-> <<>>, synced |-> TRUE]

(***************************************************************************)
(* Characters and strings                                                  *)
(***************************************************************************)
UpperChars == <<"A","B","C","D","E","F","G","H","I","J","K","L","M",
                "N","O","P","Q","R","S","T","U","V","W","X","Y","Z">>
LowerChars == <<"a","b","c","d","e","f","g","h","i","j","k","l","m",
                "n","o","p","q","r","s","t","u","v","w","x","y","z">>

\* The characters of the model in code point order (what String's Ord compares).
Alphabet == <<" ", "-", "1">> \o UpperChars \o <<"_">> \o LowerChars

CharRank(c) == CHOOSE i \in 1..Len(Alphabet) : Alphabet[i] = c

\* char::to_lowercase on the ASCII range
LowerChar(c) ==
    IF \E i \in 1..Len(UpperChars) : UpperChars[i] = c
    THEN LowerChars[CHOOSE i \in 1..Len(UpperChars) : UpperChars[i] = c]
    ELSE c

\* str::to_lowercase
ToLowercase(s) == [i \in 1..Len(s) |-> LowerChar(s[i])]

\* Ord for String: lexicographic by character; a proper prefix is smaller.
RECURSIVE StrLess(_, _)
StrLess(a, b) ==
    IF Len(b) = 0 THEN FALSE
    ELSE IF Len(a) = 0 THEN TRUE
    ELSE IF a[1] = b[1] THEN StrLess(Tail(a), Tail(b))
    ELSE CharRank(a[1]) < CharRank(b[1])

\* The keys of a BTreeMap in iteration order.
RECURSIVE SortedSeq(_)
SortedSeq(S) ==
    IF S = {} THEN <<>>
    ELSE LET m == CHOOSE x \in S : \A y \in S \ {x} : StrLess(x, y)
         IN <<m>> \o SortedSeq(S \ {m})

(***************************************************************************)
(* Provider: the closed enumeration, its ids, names and parser             *)
(***************************************************************************)
\* Provider::value_variants(), in declaration order
ValueVariants == <<"Mock", "GrpcMock", "OpenWeather", "WeatherApi">>
Providers == {ValueVariants[i] : i \in 1..Len(ValueVariants)}

is_mock(p) == p = "Mock"

id(p) ==
    CASE p = "Mock"        -> <<"m","o","c","k">>
      [] p = "GrpcMock"    -> <<"g","r","p","c">>
      [] p = "OpenWeather" -> <<"o","w">>
      [] p = "WeatherApi"  -> <<"w","a">>

name(p) ==
    CASE p = "Mock"        -> <<"M","o","c","k","W","e","a","t","h","e","r">>
      [] p = "GrpcMock"    -> <<"G","r","p","c","M","o","c","k","W","e","a","t","h","e","r">>
      [] p = "OpenWeather" -> <<"O","p","e","n","W","e","a","t","h","e","r">>
      [] p = "WeatherApi"  -> <<"W","e","a","t","h","e","r","A","p","i">>

\* Result<T>: errors are [kind, token, listed]; NoErr fills the field of an Ok.
NoErr == [kind |-> "none", token |-> <<>>, listed |-> <<>>]
Ok(v) == [ok |-> TRUE, v |-> v, err |-> NoErr]
Err(e) == [ok |-> FALSE, v |-> <<>>, err |-> e]
ErrorOf(kind) == [kind |-> kind, token |-> <<>>, listed |-> <<>>]

\* The message of the unknown-provider error: the token, then each variant's
\* display name and id.
UnknownProviderError(s) ==
    [kind |-> "UnknownProvider", token |-> s,
     listed |-> [i \in 1..Len(ValueVariants) |->
                    <<name(ValueVariants[i]), id(ValueVariants[i])>>]]

\* A parser that forgets to lower-case its input.
TryFromCaseSensitive(s) ==
    CASE s = <<"m","o","c","k","w","e","a","t","h","e","r">> \/ s = <<"m","o","c","k">>
            -> Ok("Mock")
      [] s = <<"g","r","p","c","m","o","c","k","w","e","a","t","h","e","r">> \/ s = <<"g","r","p","c">>
            -> Ok("GrpcMock")
      [] s = <<"o","p","e","n","w","e","a","t","h","e","r">> \/ s = <<"o","w">>
            -> Ok("OpenWeather")
      [] s = <<"w","e","a","t","h","e","r","a","p","i">> \/ s = <<"w","a">>
            -> Ok("WeatherApi")
      [] OTHER -> Err(UnknownProviderError(s))

\* impl TryFrom<&str> for Provider
TryFrom(s) ==
    LET l == ToLowercase(s) IN
    CASE l = <<"m","o","c","k","w","e","a","t","h","e","r">> \/ l = <<"m","o","c","k">>
            -> Ok("Mock")
      [] l = <<"g","r","p","c","m","o","c","k","w","e","a","t","h","e","r">> \/ l = <<"g","r","p","c">>
            -> Ok("GrpcMock")
      [] l = <<"o","p","e","n","w","e","a","t","h","e","r">> \/ l = <<"o","w">>
            -> Ok("OpenWeather")
      [] l = <<"w","e","a","t","h","e","r","a","p","i">> \/ l = <<"w","a">>
            -> Ok("WeatherApi")
      [] OTHER -> Err(UnknownProviderError(s))

(***************************************************************************)
(* Settings and its JSON document                                          *)
(***************************************************************************)
\* A BTreeMap is a function whose domain is the key set.
EmptyMap == [x \in {} |-> <<>>]


MapInsert(m, k, v) == [x \in (DOMAIN m) \cup {k} |-> IF x = k THEN v ELSE m[x]]

MapRemove(m, k) == [x \in (DOMAIN m) \ {k} |-> m[x]]

\* ProviderConfig { key: Option<String> }
ProviderConfig(k) == [key |-> k]

\* impl Default for Settings
DefaultSettings ==
    [addresses |-> EmptyMap,
     default_alias |-> None,
     providers |->
        MapInsert(MapInsert(EmptyMap, <<"m","o","c","k">>,
                            ProviderConfig(Some(<<"m","o","c","k","-","k","e","y">>))),
                  <<"g","r","p","c">>,
                  ProviderConfig(Some(<<"g","r","p","c","-","m","o","c","k","-","k","e","y">>))),
     default_provider |-> None]

\* A serializer that also leaves out a key that is the empty string.
SerializeProviderConfigSkipEmpty(pc_) ==
    IF pc_.key = None \/ pc_.key = Some(<<>>) THEN <<>> ELSE << <<"key", Unwrap(pc_.key)>> >>

\* A document is a sequence of lines: <<"open">>, one line per field that is
\* written, <<"close">>.  A field line is <<field name, value>>; a map value is
\* the sequence of its <<key, value>> entries; a ProviderConfig value is the
\* sequence of its own field lines.
SerializeProviderConfig(pc_) ==
    IF pc_.key = None THEN <<>> ELSE << <<"key", Unwrap(pc_.key)>> >>

SerializeAddresses(m) ==
    LET ks == SortedSeq(DOMAIN m) IN [i \in 1..Len(ks) |-> <<ks[i], m[ks[i]]>>]

SerializeProviders(m) ==
    LET ks == SortedSeq(DOMAIN m)
    IN [i \in 1..Len(ks) |-> <<ks[i], SerializeProviderConfig(m[ks[i]])>>]

\* #[derive(Serialize)] for Settings through serde_json::to_writer_pretty:
\* the fields in declaration order, an Option that is None left out.
Serialize(s) ==
    << <<"open">> >>
    \o << <<"addresses", SerializeAddresses(s.addresses)>> >>
    \o (IF s.default_alias = None THEN <<>>
        ELSE << <<"default_alias", Unwrap(s.default_alias)>> >>)
    \o << <<"providers", SerializeProviders(s.providers)>> >>
    \o (IF s.default_provider = None THEN <<>>
        ELSE << <<"default_provider", Unwrap(s.default_provider)>> >>)
    \o << <<"close">> >>

FieldNames == {"addresses", "default_alias", "providers", "default_provider"}

FieldLines(doc, f) == {i \in 2..(Len(doc) - 1) : doc[i][1] = f}

HasField(doc, f) == FieldLines(doc, f) # {}

FieldValue(doc, f) == doc[CHOOSE i \in FieldLines(doc, f) : TRUE][2]

\* What serde_json accepts as a Settings: one complete JSON object, every line
\* in it a field with a value, no known field twice.  Unknown fields are
\* ignored.
Parses(doc) ==
    /\ Len(doc) >= 2
    /\ doc[1] = <<"open">>
    /\ doc[Len(doc)] = <<"close">>
    /\ \A i \in 2..(Len(doc) - 1) : Len(doc[i]) = 2
    /\ \A f \in FieldNames : Cardinality(FieldLines(doc, f)) <= 1

\* Deserialize for ProviderConfig: #[serde(default)] on key.
DeserializeProviderConfig(lines) ==
    IF \E i \in 1..Len(lines) : lines[i][1] = "key"
    THEN ProviderConfig(Some(lines[CHOOSE i \in 1..Len(lines) : lines[i][1] = "key"][2]))
    ELSE ProviderConfig(None)

\* Deserialize for BTreeMap<String, String>: the entries in order, a later one
\* replacing an earlier one with the same key.
RECURSIVE DeserializeAddresses(_)
DeserializeAddresses(entries) ==
    IF entries = <<>> THEN EmptyMap
    ELSE LET n == Len(entries)
         IN MapInsert(DeserializeAddresses(SubSeq(entries, 1, n - 1)),
                      entries[n][1], entries[n][2])

\* Deserialize for BTreeMap<String, ProviderConfig>
RECURSIVE DeserializeProviders(_)
DeserializeProviders(entries) ==
    IF entries = <<>> THEN EmptyMap
    ELSE LET n == Len(entries)
         IN MapInsert(DeserializeProviders(SubSeq(entries, 1, n - 1)),
                      entries[n][1], DeserializeProviderConfig(entries[n][2]))

\* A deserializer whose absent `providers` falls back to Settings::default().
DeserializeDefaultingProviders(doc) ==
    [addresses |->
        IF HasField(doc, "addresses")
        THEN DeserializeAddresses(FieldValue(doc, "addresses"))
        ELSE EmptyMap,
     default_alias |->
        IF HasField(doc, "default_alias") THEN Some(FieldValue(doc, "default_alias")) ELSE None,
     providers |->
        IF HasField(doc, "providers")
        THEN DeserializeProviders(FieldValue(doc, "providers"))
        ELSE DefaultSettings.providers,
     default_provider |->
        IF HasField(doc, "default_provider") THEN Some(FieldValue(doc, "default_provider")) ELSE None]

\* #[derive(Deserialize)] for Settings: #[serde(default)] on every field.
Deserialize(doc) ==
    [addresses |->
        IF HasField(doc, "addresses")
        THEN DeserializeAddresses(FieldValue(doc, "addresses"))
        ELSE EmptyMap,
     default_alias |->
        IF HasField(doc, "default_alias") THEN Some(FieldValue(doc, "default_alias")) ELSE None,
     providers |->
        IF HasField(doc, "providers")
        THEN DeserializeProviders(FieldValue(doc, "providers"))
        ELSE EmptyMap,
     default_provider |->
        IF HasField(doc, "default_provider") THEN Some(FieldValue(doc, "default_provider")) ELSE None]

\* load_file: open, then serde_json::from_reader
load_file(file) ==
    IF ~file.exists THEN Err(ErrorOf("NotFound"))
    ELSE IF ~Parses(file.data) THEN Err(ErrorOf("Serialization"))
    ELSE Ok(Deserialize(file.data))

\* The settings AppConfig::new starts with.
LoadOrDefault(file) ==
    LET r == load_file(file) IN IF r.ok THEN r.v ELSE DefaultSettings

(***************************************************************************)
(* Paths, files, threads and processes                                     *)
(***************************************************************************)
\* resolve_config_file(): <config dir>/config.json
SettingsFile == [stem |-> "config", ext |-> "json"]

\* A temporary path that is the live path itself.
with_extension_same(path, ext) == path

\* Path::with_extension
with_extension(path, ext) == [path EXCEPT !.ext = ext]

Paths == {SettingsFile, with_extension(SettingsFile, "tmp")}

File(data, synced) == [exists |-> TRUE, data |-> data, synced |-> synced]

\* main of a CLI process, two more threads that share its store, and main of
\* a second CLI process on the same config path.
AllThreads == {"main", "t1", "t2", "p2"}
Procs == {"P1", "P2"}
ProcOf(t) == IF t = "p2" THEN "P2" ELSE "P1"

\* The Settings slot of a process that has not built its AppConfig.
Unloaded ==
    [addresses |-> EmptyMap, default_alias |-> None,
     providers |-> EmptyMap, default_provider |-> None]

Unlocked == [writer |-> None, readers |-> {}]

\* The closure handed to with_mut: [op, a, b], the operation and what it captures.
NoMut == [op |-> "none", a |-> <<>>, b |-> <<>>]

IdleLoc ==
    [cmd |-> "none",       \* the running handler
     args |-> <<>>,        \* the arguments the handler was called with
     mut |-> NoMut,        \* with_mut: the closure f
     fret |-> <<>>,        \* with_mut: result = f(&mut settings_guard)
     ret |-> Ok(<<>>),     \* what the call returned
     buf |-> <<>>,         \* save_file_atomic: the BufWriter's buffer
     fd |-> None,          \* save_file_atomic: where the file of `file` is linked
     off |-> 0,            \* save_file_atomic: the file offset of `file`
     s0 |-> Unloaded,      \* history: the settings when the write lock was taken
     live0 |-> NoFile,     \* history: the live file when the handler was called
     pin |-> None,         \* get_weather: provider argument
     ain |-> None,         \* get_weather: address argument
     prov |-> None,        \* get_weather: the resolved provider
     key |-> None,         \* get_weather: api_key
     addr |-> None,        \* get_weather: the resolved address
     message |-> <<>>,     \* set_provider: the message the closure builds
     warned |-> FALSE,     \* a warning was printed
     fetched |-> FALSE,    \* get_weather: weather_provider.get_weather was called
     din |-> None,         \* get_weather: date argument
     now |-> None,         \* history: the UTC day when normalize_date ran
     date |-> None,        \* provider: the normalized date
     geo |-> None,         \* OpenWeather: location, the first geocoding hit
     connects |-> 0,       \* GrpcMock: connections attempted
     info |-> None]        \* provider: the WeatherInfo returned

(***************************************************************************)
(* The closures of the alias handlers                                      *)
(***************************************************************************)
IsWhitespace(c) == c = " "

\* str::trim
RECURSIVE TrimStart(_)
TrimStart(s) ==
    IF s # <<>> /\ IsWhitespace(s[1]) THEN TrimStart(Tail(s)) ELSE s

RECURSIVE TrimEnd(_)
TrimEnd(s) ==
    IF s # <<>> /\ IsWhitespace(s[Len(s)]) THEN TrimEnd(SubSeq(s, 1, Len(s) - 1)) ELSE s

Trim(s) == TrimEnd(TrimStart(s))

\* The first statement of the closure f.
MutStep1(m, s) ==
    CASE m.op = "set_alias" ->
            [s EXCEPT !.addresses = MapInsert(s.addresses, m.a, m.b)]
      [] m.op = "remove_alias" ->
            [s EXCEPT !.addresses = MapRemove(s.addresses, m.a)]
      [] m.op = "set_default_alias" ->
            [s EXCEPT !.default_alias = Some(m.a)]
      [] m.op = "set_provider" ->
            IF m.b # None
            THEN [s EXCEPT !.providers =
                    MapInsert(s.providers, id(Unwrap(m.a)), ProviderConfig(m.b))]
            ELSE s
      [] OTHER -> s

\* set_provider: has_key, a stored key that is not the empty string.
HasKey(s, pid) ==
    LET k == IF pid \in DOMAIN s.providers THEN s.providers[pid].key ELSE None
    IN k # None /\ Unwrap(k) # <<>>

\* A set_alias closure that makes every alias it stores the default.
MutStep2AlwaysDefault(m, s) ==
    CASE m.op = "set_alias" -> [s EXCEPT !.default_alias = Some(m.a)]
      [] m.op = "remove_alias" ->
            IF s.default_alias = Some(m.a) THEN [s EXCEPT !.default_alias = None] ELSE s
      [] m.op = "set_provider" ->
            IF is_mock(Unwrap(m.a)) \/ HasKey(s, id(Unwrap(m.a)))
            THEN [s EXCEPT !.default_provider = Some(id(Unwrap(m.a)))]
            ELSE s
      [] OTHER -> s

\* A remove_alias closure that makes another alias the default when it
\* removes the default one.
MutStep2Promoting(m, s) ==
    CASE m.op = "set_alias" ->
            IF s.default_alias = None THEN [s EXCEPT !.default_alias = Some(m.a)] ELSE s
      [] m.op = "remove_alias" ->
            IF s.default_alias = Some(m.a)
            THEN [s EXCEPT !.default_alias =
                    IF DOMAIN s.addresses = {} THEN None
                    ELSE Some(CHOOSE k \in DOMAIN s.addresses : TRUE)]
            ELSE s
      [] m.op = "set_provider" ->
            IF is_mock(Unwrap(m.a)) \/ HasKey(s, id(Unwrap(m.a)))
            THEN [s EXCEPT !.default_provider = Some(id(Unwrap(m.a)))]
            ELSE s
      [] OTHER -> s

\* A remove_alias closure that leaves default_alias as it is.
MutStep2KeepingDefault(m, s) ==
    CASE m.op = "set_alias" ->
            IF s.default_alias = None THEN [s EXCEPT !.default_alias = Some(m.a)] ELSE s
      [] m.op = "set_provider" ->
            IF is_mock(Unwrap(m.a)) \/ HasKey(s, id(Unwrap(m.a)))
            THEN [s EXCEPT !.default_provider = Some(id(Unwrap(m.a)))]
            ELSE s
      [] OTHER -> s

\* The rest of the closure f.
MutStep2(m, s) ==
    CASE m.op = "set_alias" ->
            IF s.default_alias = None THEN [s EXCEPT !.default_alias = Some(m.a)] ELSE s
      [] m.op = "remove_alias" ->
            IF s.default_alias = Some(m.a) THEN [s EXCEPT !.default_alias = None] ELSE s
      [] m.op = "set_provider" ->
            IF is_mock(Unwrap(m.a)) \/ HasKey(s, id(Unwrap(m.a)))
            THEN [s EXCEPT !.default_provider = Some(id(Unwrap(m.a)))]
            ELSE s
      [] OTHER -> s

\* set_provider: what the first statement of the closure appends to message.
MutMessage1(m, s) ==
    IF m.op = "set_provider" /\ m.b # None THEN <<"updated">> ELSE <<>>

\* set_provider: what the rest of the closure appends to message.
MutMessage2(m, s) ==
    IF m.op # "set_provider" THEN <<>>
    ELSE IF is_mock(Unwrap(m.a)) \/ HasKey(s, id(Unwrap(m.a)))
    THEN <<"default set">>
    ELSE <<"WARNING">>

\* What the closure hands back: remove_alias reports (existed, was_default),
\* the other closures ().
MutReturn(m, s) ==
    IF m.op = "remove_alias"
    THEN <<m.a \in DOMAIN s.addresses, s.default_alias = Some(m.a)>>
    ELSE <<>>

(***************************************************************************)
(* AppConfig: new, get, with_mut                                           *)
(***************************************************************************)
\* opened, once the process has gone on from AppConfig::new.
NotFresh == [fresh |-> FALSE, from |-> [x \in Paths |-> NoFile]]

Goto(t, l) == pc' = [pc EXCEPT ![t] = l]
SetLoc(t, r) == loc' = [loc EXCEPT ![t] = r]
History == <<clean, lastSave, opened, fileOrigin>>

\* AppConfig::new, run once per process by the LazyLock behind APP_STATE.
Open(t) ==
    LET p == ProcOf(t) IN
    /\ pc[t] = "idle"
    /\ phase[p] = "closed"
    /\ phase' = [phase EXCEPT ![p] = "open"]
    /\ settings' = [settings EXCEPT ![p] = LoadOrDefault(fs[SettingsFile])]
    /\ lock' = [lock EXCEPT ![p] = Unlocked]
    /\ clean' = [clean EXCEPT ![p] = LoadOrDefault(fs[SettingsFile])]
    /\ opened' = [opened EXCEPT ![p] = [fresh |-> TRUE, from |-> fs]]
    /\ UNCHANGED <<fs, pc, loc, threads, faults, netCalls, lastSave, fileOrigin>>

\* A handler starts: the locals of the call.
Begin(t, cmd) ==
    /\ pc[t] = "idle"
    /\ phase[ProcOf(t)] = "open"
    /\ opened' = [opened EXCEPT ![ProcOf(t)] = NotFresh]
    /\ netCalls' = [netCalls EXCEPT ![t] = 0]

StartLoc(cmd) == [IdleLoc EXCEPT !.cmd = cmd, !.live0 = fs[SettingsFile]]

\* A read lock that does not wait for the writer.
GetIgnoringWriter(t) ==
    LET p == ProcOf(t) IN
    /\ Begin(t, "get")
    /\ lock' = [lock EXCEPT ![p].readers = @ \cup {t}]
    /\ SetLoc(t, StartLoc("get"))
    /\ Goto(t, "reading")
    /\ UNCHANGED <<fs, phase, settings, threads, faults, clean, lastSave, fileOrigin>>

\* AppConfig::get: settings.read(), held by the caller until it drops the guard.
Get(t) ==
    LET p == ProcOf(t) IN
    /\ Begin(t, "get")
    /\ lock[p].writer = None
    /\ lock' = [lock EXCEPT ![p].readers = @ \cup {t}]
    /\ SetLoc(t, StartLoc("get"))
    /\ Goto(t, "reading")
    /\ UNCHANGED <<fs, phase, settings, threads, faults, clean, lastSave, fileOrigin>>

\* The RwLockReadGuard is dropped.
DropGuard(t) ==
    LET p == ProcOf(t) IN
    /\ pc[t] = "reading"
    /\ lock' = [lock EXCEPT ![p].readers = @ \ {t}]
    /\ Goto(t, "done")
    /\ UNCHANGED <<fs, phase, settings, loc, threads, faults, netCalls, History>>

\* with_mut: settings.write()
WmLock(t) ==
    LET p == ProcOf(t) IN
    /\ pc[t] = "wm_lock"
    /\ lock[p].writer = None
    /\ lock[p].readers = {}
    /\ lock' = [lock EXCEPT ![p].writer = Some(t)]
    /\ SetLoc(t, [loc[t] EXCEPT !.s0 = settings[p]])
    /\ Goto(t, "wm_f1")
    /\ UNCHANGED <<fs, phase, settings, threads, faults, netCalls, History>>

\* with_mut: f(&mut settings_guard), its first statement
WmMutate1(t) ==
    LET p == ProcOf(t) IN
    /\ pc[t] = "wm_f1"
    /\ settings' = [settings EXCEPT ![p] = MutStep1(loc[t].mut, @)]
    /\ SetLoc(t, [loc[t] EXCEPT !.message = @ \o MutMessage1(loc[t].mut, settings[p])])
    /\ Goto(t, "wm_f2")
    /\ UNCHANGED <<fs, phase, lock, threads, faults, netCalls, History>>

\* A with_mut that returns after the closure, leaving the save for later.
WmMutate2Deferred(t) ==
    LET p == ProcOf(t) IN
    /\ pc[t] = "wm_f2"
    /\ settings' = [settings EXCEPT ![p] = MutStep2(loc[t].mut, @)]
    /\ clean' = [clean EXCEPT ![p] = MutStep2(loc[t].mut, settings[p])]
    /\ SetLoc(t, [loc[t] EXCEPT !.fret = MutReturn(loc[t].mut, loc[t].s0),
                                !.message = @ \o MutMessage2(loc[t].mut, settings[p]),
                                !.ret = Ok(MutReturn(loc[t].mut, loc[t].s0))])
    /\ Goto(t, "wm_exit")
    /\ UNCHANGED <<fs, phase, lock, threads, faults, netCalls, lastSave, opened, fileOrigin>>

\* with_mut: the rest of f; result = its return value; then save_file_atomic
WmMutate2(t) ==
    LET p == ProcOf(t) IN
    /\ pc[t] = "wm_f2"
    /\ settings' = [settings EXCEPT ![p] = MutStep2(loc[t].mut, @)]
    /\ clean' = [clean EXCEPT ![p] = MutStep2(loc[t].mut, settings[p])]
    /\ SetLoc(t, [loc[t] EXCEPT !.fret = MutReturn(loc[t].mut, loc[t].s0),
                                !.message = @ \o MutMessage2(loc[t].mut, settings[p])])
    /\ Goto(t, "sv_dir")
    /\ UNCHANGED <<fs, phase, lock, threads, faults, netCalls, lastSave, opened, fileOrigin>>

\* How many failures and crashes are injected in one run.
MaxFaults == 1

\* The environment lets the step succeed, or makes it fail.
Fault(ok) ==
    IF ok THEN UNCHANGED faults ELSE faults < MaxFaults /\ faults' = faults + 1

\* A `?` inside save_file_atomic: with_mut returns the error; `file` is
\* dropped on the way out.
SaveFails(t) ==
    /\ SetLoc(t, [loc[t] EXCEPT !.ret = Err(ErrorOf("Io")), !.fd = None, !.off = 0])
    /\ Goto(t, "wm_exit")

\* save_file_atomic: fs::create_dir_all(parent)?
SaveCreateDir(t, ok) ==
    LET p == ProcOf(t) IN
    /\ Fault(ok)
    /\ pc[t] = "sv_dir"
    /\ lastSave' = [old |-> fs[SettingsFile], new |-> Serialize(settings[p])]
    /\ IF ok THEN Goto(t, "sv_create") /\ UNCHANGED loc ELSE SaveFails(t)
    /\ UNCHANGED <<fs, phase, settings, lock, threads, netCalls, clean, opened, fileOrigin>>

\* A File::create that opens the temporary file for appending.
SaveCreateTmpAppend(t, ok) ==
    LET tmp_path == with_extension(SettingsFile, "tmp") IN
    /\ Fault(ok)
    /\ pc[t] = "sv_create"
    /\ IF ok
       THEN /\ fs' = [fs EXCEPT ![tmp_path] = File(fs[tmp_path].data, FALSE)]
            /\ SetLoc(t, [loc[t] EXCEPT !.fd = Some(tmp_path),
                                        !.off = Len(fs[tmp_path].data)])
            /\ Goto(t, "sv_ser")
       ELSE SaveFails(t) /\ UNCHANGED fs
    /\ UNCHANGED <<phase, settings, lock, threads, netCalls, History>>

\* save_file_atomic: tmp_path = path.with_extension("tmp"); File::create(&tmp_path)?
\* The file at tmp_path is created, or opened and truncated when it is there:
\* whoever holds it open holds the same file.
SaveCreateTmp(t, ok) ==
    LET tmp_path == with_extension(SettingsFile, "tmp") IN
    /\ Fault(ok)
    /\ pc[t] = "sv_create"
    /\ IF ok
       THEN /\ fs' = [fs EXCEPT ![tmp_path] = File(<<>>, FALSE)]
            /\ SetLoc(t, [loc[t] EXCEPT !.fd = Some(tmp_path), !.off = 0])
            /\ Goto(t, "sv_ser")
       ELSE SaveFails(t) /\ UNCHANGED fs
    /\ UNCHANGED <<phase, settings, lock, threads, netCalls, History>>

\* save_file_atomic: serde_json::to_writer_pretty(&mut writer, settings)?
\* The document lands in the BufWriter's buffer.
SaveSerialize(t, ok) ==
    LET p == ProcOf(t) IN
    /\ Fault(ok)
    /\ pc[t] = "sv_ser"
    /\ IF ok
       THEN /\ SetLoc(t, [loc[t] EXCEPT !.buf = Serialize(settings[p])])
            /\ Goto(t, "sv_flush")
       ELSE SaveFails(t)
    /\ UNCHANGED <<fs, phase, settings, lock, threads, netCalls, History>>

\* The place of a file that no path names any more.
Unlinked == [stem |-> "config", ext |-> "unlinked"]

\* write(2) at a file offset: over what is there, or behind the end of the
\* file with the gap filled with zeros.
WriteAt(data, off, x) ==
    IF off < Len(data) THEN [data EXCEPT ![off + 1] = x]
    ELSE data \o [i \in 1..(off - Len(data)) |-> <<"nul">>] \o <<x>>

\* save_file_atomic: writer.flush()?  The buffer reaches the file one write
\* at a time, each at the offset of `file`; a write can fail with the earlier
\* ones already in the file.
SaveFlush(t, ok) ==
    LET f == Unwrap(loc[t].fd) IN
    /\ Fault(ok)
    /\ pc[t] = "sv_flush"
    /\ IF ok
       THEN /\ fs' = IF f \in DOMAIN fs
                     THEN [fs EXCEPT ![f] =
                             File(WriteAt(fs[f].data, loc[t].off, Head(loc[t].buf)), FALSE)]
                     ELSE fs
            /\ SetLoc(t, [loc[t] EXCEPT !.buf = Tail(@), !.off = @ + 1])
            /\ Goto(t, IF Len(loc[t].buf) = 1 THEN "sv_sync" ELSE "sv_flush")
       ELSE SaveFails(t) /\ UNCHANGED fs
    /\ UNCHANGED <<phase, settings, lock, threads, netCalls, History>>

\* save_file_atomic: writer.get_ref().sync_all()?, and the end of the block
\* that owns `file`.
SaveSync(t, ok) ==
    LET f == Unwrap(loc[t].fd) IN
    /\ Fault(ok)
    /\ pc[t] = "sv_sync"
    /\ IF ok
       THEN /\ fs' = IF f \in DOMAIN fs THEN [fs EXCEPT ![f].synced = TRUE] ELSE fs
            /\ SetLoc(t, [loc[t] EXCEPT !.fd = None, !.off = 0])
            /\ Goto(t, "sv_rename")
       ELSE SaveFails(t) /\ UNCHANGED fs
    /\ UNCHANGED <<phase, settings, lock, threads, netCalls, History>>

\* fs::rename(from, to): the file at `from` replaces the one at `to`.
Renamed(f, from, to) ==
    IF from = to THEN f
    ELSE [x \in DOMAIN f |-> IF x = to THEN f[from] ELSE IF x = from THEN NoFile ELSE f[x]]

\* The std::io::Error of a failed file-system call, named after the call.
IoError(op) == [ErrorOf("Io") EXCEPT !.token = <<op>>]

\* What a rename of tmp_path over path, or a removal of tmp_path, does to a
\* file another writer holds open: the file stays, its place changes.
Relinked(l, renamed, removed) ==
    LET tmp_path == with_extension(SettingsFile, "tmp") IN
    IF l.fd = Some(tmp_path)
    THEN IF renamed THEN [l EXCEPT !.fd = Some(SettingsFile)]
         ELSE IF removed THEN [l EXCEPT !.fd = Some(Unlinked)] ELSE l
    ELSE IF l.fd = Some(SettingsFile) /\ renamed THEN [l EXCEPT !.fd = Some(Unlinked)]
    ELSE l

\* A save whose failed clean-up replaces the error of the rename.
SaveRenameCleanupError(t, ok, removed) ==
    LET p == ProcOf(t)
        tmp_path == with_extension(SettingsFile, "tmp")
        ret == IF ok THEN Ok(loc[t].fret)
               ELSE Err(IoError(IF removed THEN "rename" ELSE "remove_file"))
    IN
    /\ IF fs[tmp_path].exists THEN Fault(ok) ELSE ~ok /\ UNCHANGED faults
    /\ pc[t] = "sv_rename"
    /\ IF ok
       THEN /\ removed
            /\ fs' = Renamed(fs, tmp_path, SettingsFile)
            /\ fileOrigin' = Some(settings[p])
       ELSE /\ removed => fs[tmp_path].exists
            /\ fs' = IF removed THEN [fs EXCEPT ![tmp_path] = NoFile] ELSE fs
            /\ UNCHANGED fileOrigin
    /\ loc' = [u \in AllThreads |->
                 IF u = t THEN [loc[t] EXCEPT !.ret = ret]
                 ELSE Relinked(loc[u], ok, removed)]
    /\ Goto(t, "wm_exit")
    /\ UNCHANGED <<phase, settings, lock, threads, netCalls, clean, lastSave, opened>>

\* save_file_atomic: fs::rename(&tmp_path, path), which fails when nothing is
\* at tmp_path, and on its error fs::remove_file(&tmp_path), whose own error
\* is only logged; `?` then returns the error of the rename.
SaveRename(t, ok, removed) ==
    LET p == ProcOf(t)
        tmp_path == with_extension(SettingsFile, "tmp")
        ret == IF ok THEN Ok(loc[t].fret) ELSE Err(IoError("rename"))
    IN
    /\ IF fs[tmp_path].exists THEN Fault(ok) ELSE ~ok /\ UNCHANGED faults
    /\ pc[t] = "sv_rename"
    /\ IF ok
       THEN /\ removed
            /\ fs' = Renamed(fs, tmp_path, SettingsFile)
            /\ fileOrigin' = Some(settings[p])
       ELSE /\ removed => fs[tmp_path].exists
            /\ fs' = IF removed THEN [fs EXCEPT ![tmp_path] = NoFile] ELSE fs
            /\ UNCHANGED fileOrigin
    /\ loc' = [u \in AllThreads |->
                 IF u = t THEN [loc[t] EXCEPT !.ret = ret]
                 ELSE Relinked(loc[u], ok, removed)]
    /\ Goto(t, "wm_exit")
    /\ UNCHANGED <<phase, settings, lock, threads, netCalls, clean, lastSave, opened>>

\* set_provider after with_mut(..)?: the message is printed when the call
\* returned Ok; it holds the warning when the default was not changed.
Printed(l) ==
    /\ l.ret.ok
    /\ \E i \in 1..Len(l.message) : l.message[i] = "WARNING"

\* A with_mut that puts the old settings back when the save failed.
WmExitRollback(t) ==
    LET p == ProcOf(t) IN
    /\ pc[t] = "wm_exit"
    /\ lock' = [lock EXCEPT ![p].writer = None]
    /\ settings' = [settings EXCEPT ![p] = IF loc[t].ret.ok THEN @ ELSE loc[t].s0]
    /\ lastSave' = [old |-> fs[SettingsFile], new |-> fs[SettingsFile].data]
    /\ SetLoc(t, [loc[t] EXCEPT !.warned = Printed(loc[t])])
    /\ Goto(t, "done")
    /\ UNCHANGED <<fs, phase, threads, faults, netCalls, clean, opened, fileOrigin>>

\* with_mut returns: settings_guard goes out of scope.
WmExit(t) ==
    LET p == ProcOf(t) IN
    /\ pc[t] = "wm_exit"
    /\ lock' = [lock EXCEPT ![p].writer = None]
    /\ lastSave' = [old |-> fs[SettingsFile], new |-> fs[SettingsFile].data]
    /\ SetLoc(t, [loc[t] EXCEPT !.warned = Printed(loc[t])])
    /\ Goto(t, "done")
    /\ UNCHANGED <<fs, phase, settings, threads, faults, netCalls, clean, opened, fileOrigin>>

(***************************************************************************)
(* The alias handlers                                                      *)
(***************************************************************************)
\* `char_count > 5` in set_alias
MaxAliasChars == 5

Finish(t, l, r) == SetLoc(t, r) /\ Goto(t, l)

\* A set_alias without the check of the address.
SetAliasAnyAddress(t, alias, address) ==
    LET start(cmd) == [StartLoc(cmd) EXCEPT !.args = <<alias, address>>] IN
    /\ Begin(t, "set_alias")
    /\ IF address = None
       THEN Finish(t, "sd_check",
                   [start("set_default_alias") EXCEPT
                        !.mut = [op |-> "set_default_alias", a |-> alias, b |-> <<>>]])
       ELSE IF Trim(alias) = <<>> \/ Len(Trim(alias)) > MaxAliasChars
       THEN Finish(t, "done",
                   [start("set_alias") EXCEPT !.ret = Err(ErrorOf("AliasLength"))])
       ELSE Finish(t, "wm_lock",
                   [start("set_alias") EXCEPT
                        !.mut = [op |-> "set_alias", a |-> Trim(alias),
                                 b |-> Unwrap(address)]])
    /\ UNCHANGED <<fs, phase, settings, lock, threads, faults, clean, lastSave, fileOrigin>>

\* handlers::set_alias(alias, address), up to its call of with_mut; with no
\* address it is set_default_alias(alias).
SetAlias(t, alias, address) ==
    LET start(cmd) == [StartLoc(cmd) EXCEPT !.args = <<alias, address>>] IN
    /\ Begin(t, "set_alias")
    /\ IF address = None
       THEN Finish(t, "sd_check",
                   [start("set_default_alias") EXCEPT
                        !.mut = [op |-> "set_default_alias", a |-> alias, b |-> <<>>]])
       ELSE IF Trim(Unwrap(address)) = <<>>
       THEN Finish(t, "done",
                   [start("set_alias") EXCEPT !.ret = Err(ErrorOf("AddressEmpty"))])
       ELSE IF Trim(alias) = <<>> \/ Len(Trim(alias)) > MaxAliasChars
       THEN Finish(t, "done",
                   [start("set_alias") EXCEPT !.ret = Err(ErrorOf("AliasLength"))])
       ELSE Finish(t, "wm_lock",
                   [start("set_alias") EXCEPT
                        !.mut = [op |-> "set_alias", a |-> Trim(alias),
                                 b |-> Unwrap(address)]])
    /\ UNCHANGED <<fs, phase, settings, lock, threads, faults, clean, lastSave, fileOrigin>>

\* A set_default_alias that does not look for the alias.
SetDefaultUnchecked(t) ==
    /\ pc[t] = "sd_check"
    /\ lock[ProcOf(t)].writer = None
    /\ Goto(t, "wm_lock")
    /\ UNCHANGED <<fs, phase, settings, lock, loc, threads, faults, netCalls, History>>

\* set_default_alias: the existence check under its own read lock, released
\* before with_mut is called.
SetDefaultCheck(t) ==
    LET p == ProcOf(t) IN
    /\ pc[t] = "sd_check"
    /\ lock[p].writer = None
    /\ IF loc[t].mut.a \in DOMAIN settings[p].addresses
       THEN Goto(t, "wm_lock") /\ UNCHANGED loc
       ELSE Finish(t, "done", [loc[t] EXCEPT !.mut = NoMut,
                                             !.ret = Err(ErrorOf("AliasNotFound"))])
    /\ UNCHANGED <<fs, phase, settings, lock, threads, faults, netCalls, History>>

\* handlers::remove_alias(alias), up to its call of with_mut.
RemoveAlias(t, alias) ==
    /\ Begin(t, "remove_alias")
    /\ Finish(t, "wm_lock",
              [StartLoc("remove_alias") EXCEPT
                    !.args = <<alias>>,
                    !.mut = [op |-> "remove_alias", a |-> alias, b |-> <<>>]])
    /\ UNCHANGED <<fs, phase, settings, lock, threads, faults, clean, lastSave, fileOrigin>>

\* A set_provider that stores whatever key it is given.
SetProviderAnyKey(t, provider, key) ==
    LET parsed == TryFrom(provider) IN
    /\ Begin(t, "set_provider")
    /\ IF ~parsed.ok
       THEN Finish(t, "done", [StartLoc("set_provider") EXCEPT
                                    !.args = <<provider, key>>, !.ret = Err(parsed.err)])
       ELSE Finish(t, "wm_lock",
                   [StartLoc("set_provider") EXCEPT
                        !.args = <<provider, key>>,
                        !.mut = [op |-> "set_provider", a |-> Some(parsed.v), b |-> key]])
    /\ UNCHANGED <<fs, phase, settings, lock, threads, faults, clean, lastSave, fileOrigin>>

\* handlers::set_provider(provider, key), up to its call of with_mut.
SetProvider(t, provider, key) ==
    LET parsed == TryFrom(provider)
        key_to_set == IF key # None /\ Unwrap(key) # <<>> THEN key ELSE None
    IN
    /\ Begin(t, "set_provider")
    /\ IF ~parsed.ok
       THEN Finish(t, "done", [StartLoc("set_provider") EXCEPT
                                    !.args = <<provider, key>>, !.ret = Err(parsed.err)])
       ELSE Finish(t, "wm_lock",
                   [StartLoc("set_provider") EXCEPT
                        !.args = <<provider, key>>,
                        !.mut = [op |-> "set_provider", a |-> Some(parsed.v), b |-> key_to_set]])
    /\ UNCHANGED <<fs, phase, settings, lock, threads, faults, clean, lastSave, fileOrigin>>

(***************************************************************************)
(* The get handler and the resolution layer                                *)
(***************************************************************************)
\* The key stored for a provider id: providers.get(id).and_then(|p| p.key.clone())
StoredKey(config, pid) ==
    IF pid \in DOMAIN config.providers THEN config.providers[pid].key ELSE None

\* A resolve_provider that does not look for the key.
resolve_provider_unchecked(config, provider_input) ==
    LET parsed ==
            IF provider_input # None THEN TryFrom(Unwrap(provider_input))
            ELSE IF config.default_provider # None
                 THEN TryFrom(Unwrap(config.default_provider))
                 ELSE Ok("Mock")
    IN  IF ~parsed.ok THEN Err(parsed.err)
        ELSE Ok([provider |-> parsed.v, api_key |-> StoredKey(config, id(parsed.v))])

\* A resolve_provider that takes the Mock when the default does not parse.
resolve_provider_lenient(config, provider_input) ==
    LET parsed ==
            IF provider_input # None THEN TryFrom(Unwrap(provider_input))
            ELSE IF config.default_provider # None
                    /\ TryFrom(Unwrap(config.default_provider)).ok
                 THEN TryFrom(Unwrap(config.default_provider))
                 ELSE Ok("Mock")
    IN  IF ~parsed.ok THEN Err(parsed.err)
        ELSE LET api_key == StoredKey(config, id(parsed.v))
             IN IF ~is_mock(parsed.v) /\ api_key = None
                THEN Err([ErrorOf("MissingCredential") EXCEPT !.token = id(parsed.v)])
                ELSE Ok([provider |-> parsed.v, api_key |-> api_key])

\* resolve_provider: the explicit token, else default_provider, else Mock;
\* a parse error of either is returned (`?`).
resolve_provider(config, provider_input) ==
    LET parsed ==
            IF provider_input # None THEN TryFrom(Unwrap(provider_input))
            ELSE IF config.default_provider # None
                 THEN TryFrom(Unwrap(config.default_provider))
                 ELSE Ok("Mock")
    IN  IF ~parsed.ok THEN Err(parsed.err)
        ELSE LET api_key == StoredKey(config, id(parsed.v))
             IN IF ~is_mock(parsed.v) /\ api_key = None
                THEN Err([ErrorOf("MissingCredential") EXCEPT !.token = id(parsed.v)])
                ELSE Ok([provider |-> parsed.v, api_key |-> api_key])

\* A resolve_address that prefers a usable default alias to the input.
resolve_address_default_first(config, address_input) ==
    IF config.default_alias # None
        /\ Unwrap(config.default_alias) \in DOMAIN config.addresses
    THEN Ok(config.addresses[Unwrap(config.default_alias)])
    ELSE IF address_input # None
         THEN IF Unwrap(address_input) \in DOMAIN config.addresses
              THEN Ok(config.addresses[Unwrap(address_input)])
              ELSE Ok(Unwrap(address_input))
         ELSE Err(ErrorOf("NoAddressSpecified"))

\* A resolve_address that takes a default alias without an entry as the
\* address itself.
resolve_address_dangling_literal(config, address_input) ==
    IF address_input # None
    THEN IF Unwrap(address_input) \in DOMAIN config.addresses
         THEN Ok(config.addresses[Unwrap(address_input)])
         ELSE Ok(Unwrap(address_input))
    ELSE IF config.default_alias # None
         THEN IF Unwrap(config.default_alias) \in DOMAIN config.addresses
              THEN Ok(config.addresses[Unwrap(config.default_alias)])
              ELSE Ok(Unwrap(config.default_alias))
         ELSE Err(ErrorOf("NoAddressSpecified"))

\* resolve_address: the println! for a default alias that has no entry.
resolve_address_warns(config, address_input) ==
    /\ address_input = None
    /\ config.default_alias # None
    /\ Unwrap(config.default_alias) \notin DOMAIN config.addresses

\* resolve_address: alias or literal; with no input the default alias.
resolve_address(config, address_input) ==
    IF address_input # None
    THEN IF Unwrap(address_input) \in DOMAIN config.addresses
         THEN Ok(config.addresses[Unwrap(address_input)])
         ELSE Ok(Unwrap(address_input))
    ELSE IF config.default_alias # None
            /\ Unwrap(config.default_alias) \in DOMAIN config.addresses
         THEN Ok(config.addresses[Unwrap(config.default_alias)])
         ELSE Err(ErrorOf("NoAddressSpecified"))

\* run(): AppCommands::Get { address, date, provider }
GetWeather(t, address, date, provider) ==
    /\ Begin(t, "get_weather")
    /\ Finish(t, "gw_provider",
              [StartLoc("get_weather") EXCEPT
                    !.ain = address, !.din = date, !.pin = provider])
    /\ UNCHANGED <<fs, phase, settings, lock, threads, faults, clean, lastSave, fileOrigin>>

\* get_weather: let (provider, api_key) = resolve_provider(provider)?;
ResolveProvider(t) ==
    LET p == ProcOf(t)
        r == resolve_provider(settings[p], loc[t].pin)
    IN
    /\ pc[t] = "gw_provider"
    /\ lock[p].writer = None
    /\ IF r.ok
       THEN Finish(t, "gw_address",
                   [loc[t] EXCEPT !.prov = Some(r.v.provider), !.key = r.v.api_key])
       ELSE Finish(t, "done", [loc[t] EXCEPT !.ret = Err(r.err)])
    /\ UNCHANGED <<fs, phase, settings, lock, threads, faults, netCalls, History>>

\* get_weather: let address = resolve_address(address)?;
ResolveAddress(t) ==
    LET p == ProcOf(t)
        r == resolve_address(settings[p], loc[t].ain)
    IN
    /\ pc[t] = "gw_address"
    /\ lock[p].writer = None
    /\ IF r.ok
       THEN Finish(t, "gw_fetch", [loc[t] EXCEPT !.addr = Some(r.v)])
       ELSE Finish(t, "done",
                   [loc[t] EXCEPT !.ret = Err(r.err),
                                  !.warned = resolve_address_warns(settings[p], loc[t].ain)])
    /\ UNCHANGED <<fs, phase, settings, lock, threads, faults, netCalls, History>>

(***************************************************************************)
(* utils::date: the formats, chrono's parser and formatter, normalize_date *)
(***************************************************************************)
Digits == <<"0","1","2","3","4","5","6","7","8","9">>

IsDigit(c) == \E i \in 1..Len(Digits) : Digits[i] = c

DigitValue(c) == (CHOOSE i \in 1..Len(Digits) : Digits[i] = c) - 1

\* The digits s starts with, max of them at most.
RECURSIVE LeadingDigits(_, _)
LeadingDigits(s, max) ==
    IF max > 0 /\ s # <<>> /\ IsDigit(s[1])
    THEN <<s[1]>> \o LeadingDigits(Tail(s), max - 1)
    ELSE <<>>

RECURSIVE StripZeros(_)
StripZeros(ds) == IF ds # <<>> /\ ds[1] = "0" THEN StripZeros(Tail(ds)) ELSE ds

RECURSIVE DigitsValue(_)
DigitsValue(ds) ==
    IF ds = <<>> THEN 0
    ELSE 10 * DigitsValue(SubSeq(ds, 1, Len(ds) - 1)) + DigitValue(ds[Len(ds)])

\* chrono scan::number(s, 1, max): one to max digits and what follows them.
\* A number of more than six significant digits is no year, month or day
\* of a NaiveDate, whose years end at 262142.
number(s, max) ==
    LET ds == LeadingDigits(s, max) IN
    IF ds = <<>> \/ Len(StripZeros(ds)) > 6
    THEN [ok |-> FALSE, v |-> 0, rest |-> s]
    ELSE [ok |-> TRUE, v |-> DigitsValue(StripZeros(ds)),
          rest |-> SubSeq(s, Len(ds) + 1, Len(s))]

ShortMonthNames ==
    << <<"j","a","n">>, <<"f","e","b">>, <<"m","a","r">>, <<"a","p","r">>, <<"m","a","y">>, <<"j","u","n">>,
       <<"j","u","l">>, <<"a","u","g">>, <<"s","e","p">>, <<"o","c","t">>, <<"n","o","v">>, <<"d","e","c">> >>

\* chrono scan::short_month0: three letters, in any case, that name a month.
short_month0(s) ==
    LET head == IF Len(s) >= 3 THEN ToLowercase(SubSeq(s, 1, 3)) ELSE <<>> IN
    IF \E i \in 1..Len(ShortMonthNames) : ShortMonthNames[i] = head
    THEN [ok |-> TRUE,
          v |-> (CHOOSE i \in 1..Len(ShortMonthNames) : ShortMonthNames[i] = head) - 1,
          rest |-> SubSeq(s, 4, Len(s))]
    ELSE [ok |-> FALSE, v |-> 0, rest |-> s]

\* The formats normalize_date tries, in this order.
POSSIBLE_FORMATS ==
    << <<"%","Y","-","%","m","-","%","d">>, <<"%","d",".","%","m",".","%","Y">>, <<"%","m","/","%","d","/","%","Y">>,
       <<"%","d","-","%","m","-","%","Y">>, <<"%","d"," ","%","b"," ","%","Y">>, <<"%","Y","/","%","m","/","%","d">> >>

\* chrono StrftimeItems: a format string as items: a specifier after '%',
\* white space, or a literal character.
RECURSIVE StrftimeItems(_)
StrftimeItems(fmt) ==
    IF fmt = <<>> THEN <<>>
    ELSE IF fmt[1] = "%"
    THEN <<[k |-> "spec", a |-> fmt[2]]>> \o StrftimeItems(SubSeq(fmt, 3, Len(fmt)))
    ELSE IF IsWhitespace(fmt[1])
    THEN <<[k |-> "space", a |-> fmt[1]]>> \o StrftimeItems(Tail(fmt))
    ELSE <<[k |-> "literal", a |-> fmt[1]]>> \o StrftimeItems(Tail(fmt))

\* chrono Parsed, with no field set.
NoParsed == [year |-> None, month |-> None, day |-> None]

\* chrono parse, Item::Numeric: white space is skipped; a year with a sign
\* takes every digit that follows, one without takes four at most; month
\* and day take two at most.
Numeric(spec, s0) ==
    LET s == TrimStart(s0) IN
    IF spec = "Y"
    THEN IF s # <<>> /\ s[1] = "-"
         THEN LET n == number(Tail(s), Len(s)) IN [n EXCEPT !.v = 0 - n.v]
         ELSE IF s # <<>> /\ s[1] = "+"
         THEN number(Tail(s), Len(s))
         ELSE number(s, 4)
    ELSE number(s, 2)

\* chrono format::parse: the items consume the string from the left; what is
\* left over at the end is an error.
RECURSIVE parse(_, _, _)
parse(parsed, s, items) ==
    IF items = <<>>
    THEN IF s = <<>> THEN Ok(parsed) ELSE Err(ErrorOf("TooLong"))
    ELSE LET item == Head(items) IN
         CASE item.k = "literal" ->
                IF s = <<>> THEN Err(ErrorOf("TooShort"))
                ELSE IF s[1] # item.a THEN Err(ErrorOf("Invalid"))
                ELSE parse(parsed, Tail(s), Tail(items))
           [] item.k = "space" -> parse(parsed, TrimStart(s), Tail(items))
           [] item.k = "spec" /\ item.a = "b" ->
                LET n == short_month0(s) IN
                IF n.ok
                THEN parse([parsed EXCEPT !.month = Some(n.v + 1)], n.rest, Tail(items))
                ELSE Err(ErrorOf("Invalid"))
           [] OTHER ->
                LET n == Numeric(item.a, s) IN
                IF ~n.ok THEN Err(ErrorOf("Invalid"))
                ELSE parse(CASE item.a = "Y" -> [parsed EXCEPT !.year = Some(n.v)]
                             [] item.a = "m" -> [parsed EXCEPT !.month = Some(n.v)]
                             [] OTHER -> [parsed EXCEPT !.day = Some(n.v)],
                           n.rest, Tail(items))

is_leap_year(year) == year % 4 = 0 /\ (year % 100 # 0 \/ year % 400 = 0)

days_in_month(year, month) ==
    CASE month = 2 -> IF is_leap_year(year) THEN 29 ELSE 28
      [] month \in {4, 6, 9, 11} -> 30
      [] OTHER -> 31

\* NaiveDate::from_ymd_opt: the date, when the calendar has it.
from_ymd_opt(year, month, day) ==
    IF /\ year \in -262143..262142
       /\ month \in 1..12
       /\ day \in 1..days_in_month(year, month)
    THEN Some([year |-> year, month |-> month, day |-> day])
    ELSE None

\* NaiveDate::parse_from_str(s, fmt).ok()
parse_from_str(s, fmt) ==
    LET r == parse(NoParsed, s, StrftimeItems(fmt)) IN
    IF r.ok /\ r.v.year # None /\ r.v.month # None /\ r.v.day # None
    THEN from_ymd_opt(Unwrap(r.v.year), Unwrap(r.v.month), Unwrap(r.v.day))
    ELSE None

\* find_map over the formats from the i-th on.
RECURSIVE find_map(_, _, _)
find_map(date_str, formats, i) ==
    IF i > Len(formats) THEN None
    ELSE IF parse_from_str(date_str, formats[i]) # None
    THEN parse_from_str(date_str, formats[i])
    ELSE find_map(date_str, formats, i + 1)

\* A parser whose slash format reads the day first.
parse_date_day_first(date_str) ==
    find_map(date_str,
             <<POSSIBLE_FORMATS[1], POSSIBLE_FORMATS[2], <<"%","d","/","%","m","/","%","Y">>,
               POSSIBLE_FORMATS[4], POSSIBLE_FORMATS[5], POSSIBLE_FORMATS[6]>>, 1)

\* parse_date_with_unknown_format(date_str)
parse_date_with_unknown_format(date_str) == find_map(date_str, POSSIBLE_FORMATS, 1)

\* The decimal digits of a natural number.
RECURSIVE ToDigits(_)
ToDigits(n) ==
    IF n < 10 THEN <<Digits[n + 1]>> ELSE ToDigits(n \div 10) \o <<Digits[(n % 10) + 1]>>

\* Zero padding to a width.
RECURSIVE PadZero(_, _)
PadZero(ds, width) == IF Len(ds) < width THEN PadZero(<<"0">> \o ds, width) ELSE ds

\* chrono's %Y: four digits for the years 0 to 9999, else a sign and at
\* least four digits.
FormatYear(year) ==
    IF year \in 0..9999 THEN PadZero(ToDigits(year), 4)
    ELSE IF year < 0 THEN <<"-">> \o PadZero(ToDigits(0 - year), 4)
    ELSE <<"+">> \o PadZero(ToDigits(year), 4)

\* NaiveDate::format(fmt).to_string()
RECURSIVE FormatItems(_, _)
FormatItems(date, items) ==
    IF items = <<>> THEN <<>>
    ELSE LET item == Head(items) IN
         (CASE item.k = "spec" /\ item.a = "Y" -> FormatYear(date.year)
            [] item.k = "spec" /\ item.a = "m" -> PadZero(ToDigits(date.month), 2)
            [] item.k = "spec" /\ item.a = "d" -> PadZero(ToDigits(date.day), 2)
            [] item.k = "spec" /\ item.a = "b" ->
                  LET short == ShortMonthNames[date.month] IN
                  <<UpperChars[CHOOSE i \in 1..Len(LowerChars) : LowerChars[i] = short[1]],
                    short[2], short[3]>>
            [] OTHER -> <<item.a>>)
         \o FormatItems(date, Tail(items))

format(date, fmt) == FormatItems(date, StrftimeItems(fmt))

\* normalize_date(date_str), with today = Utc::now().date_naive() at the call.
normalize_date(date_str, today) ==
    LET parsed == IF date_str = None THEN None
                  ELSE parse_date_with_unknown_format(Unwrap(date_str))
    IN format(IF parsed = None THEN today ELSE Unwrap(parsed), POSSIBLE_FORMATS[1])

(***************************************************************************)
(* The provider backends                                                   *)
(***************************************************************************)
\* WeatherInfo; the f32 temperatures of the fixtures are whole numbers.
WeatherInfo(country, city, date, temperature, humidity, description) ==
    [country |-> country, city |-> city, date |-> date,
     temperature |-> temperature, humidity |-> humidity, description |-> description]

\* MockProvider::get_weather: what it returns for the normalized date.
MockInfo(date) ==
    WeatherInfo("Mock Country", "Mock City", date, 20, 50, Some("Sunny (Mock)"))

\* GrpcMockProvider::get_weather, Err(_) arm: the static data.
GrpcStaticInfo(date) ==
    WeatherInfo("gRPC Mock Country", "gRPC Mock City", date, 42, 88, Some("Rain (Mock)"))

\* `humidity as u8`: the low eight bits.
AsU8(n) == n % 256

\* The error of a backend called without a key; it names `weather provider
\* <id> --key <API_KEY>`.
ApiKeyNotSet(provider) ==
    [kind |-> "ApiKeyNotSet", token |-> id(provider), listed |-> <<>>]

\* Where get_weather of each backend starts: the two HTTP backends look at
\* the key first, the mocks normalize the date first.
FirstStep(provider) ==
    IF provider \in {"OpenWeather", "WeatherApi"} THEN "pv_key" ELSE "pv_date"

\* get_weather: create_provider(provider).get_weather(api_key, &address, date)
Fetch(t) ==
    /\ pc[t] = "gw_fetch"
    /\ Finish(t, FirstStep(Unwrap(loc[t].prov)), [loc[t] EXCEPT !.fetched = TRUE])
    /\ UNCHANGED <<fs, phase, settings, lock, threads, faults, netCalls, History>>

\* A user of the library calls create_provider(provider).get_weather(key,
\* address, date) itself, as tests/lib_tests.rs does.
LibGetWeather(t, provider, key, address, date) ==
    /\ Begin(t, "lib_get_weather")
    /\ Finish(t, FirstStep(provider),
              [StartLoc("lib_get_weather") EXCEPT
                    !.prov = Some(provider), !.key = key, !.addr = Some(address),
                    !.din = date, !.fetched = TRUE])
    /\ UNCHANGED <<fs, phase, settings, lock, threads, faults, clean, lastSave, fileOrigin>>

\* OpenWeather, WeatherApi: let provider_key = provider_key.ok_or_else(..)?;
ProviderKey(t) ==
    /\ pc[t] = "pv_key"
    /\ IF loc[t].key = None
       THEN Finish(t, "done", [loc[t] EXCEPT !.ret = Err(ApiKeyNotSet(Unwrap(loc[t].prov)))])
       ELSE Finish(t, IF loc[t].prov = Some("OpenWeather") THEN "ow_geo" ELSE "pv_date",
                   loc[t])
    /\ UNCHANGED <<fs, phase, settings, lock, threads, faults, netCalls, History>>

\* What the geocoding endpoint can answer: a failure (transport, status or
\* body), no hit, or a hit.
GeoResponses ==
    { [ok |-> FALSE, body |-> <<>>],
      [ok |-> TRUE, body |-> <<>>],
      [ok |-> TRUE, body |-> <<[name |-> "London", country |-> "GB"]>>] }

\* OpenWeather: reqwest::get(geo_url), and geo_body.first()
OwGeocode(t, response) ==
    /\ pc[t] = "ow_geo"
    /\ netCalls' = [netCalls EXCEPT ![t] = @ + 1]
    /\ IF ~response.ok
       THEN Finish(t, "done", [loc[t] EXCEPT !.ret = Err(ErrorOf("Reqwest"))])
       ELSE IF response.body = <<>>
       THEN Finish(t, "done",
                   [loc[t] EXCEPT !.ret = Err([kind |-> "LocationNotFound",
                                               token |-> Unwrap(loc[t].addr),
                                               listed |-> <<>>])])
       ELSE Finish(t, "pv_date", [loc[t] EXCEPT !.geo = Some(response.body[1])])
    /\ UNCHANGED <<fs, phase, settings, lock, threads, faults, History>>

\* A Mock that hands the date it is given back as it is.
NormalizeDateMockRaw(t, today) ==
    LET date == IF loc[t].prov = Some("Mock") /\ loc[t].din # None
                THEN Unwrap(loc[t].din)
                ELSE normalize_date(loc[t].din, today)
        l == [loc[t] EXCEPT !.now = Some(today), !.date = Some(date)]
    IN
    /\ pc[t] = "pv_date"
    /\ CASE loc[t].prov = Some("Mock") ->
              Finish(t, "done", [l EXCEPT !.info = Some(MockInfo(date))])
         [] loc[t].prov = Some("GrpcMock") -> Finish(t, "grpc_connect", l)
         [] loc[t].prov = Some("OpenWeather") -> Finish(t, "ow_weather", l)
         [] OTHER -> Finish(t, "wa_request", l)
    /\ UNCHANGED <<fs, phase, settings, lock, threads, faults, netCalls, History>>

\* Every backend: normalize_date(date), on the UTC day `today`; the Mock
\* returns its data right after.
NormalizeDate(t, today) ==
    LET date == normalize_date(loc[t].din, today)
        l == [loc[t] EXCEPT !.now = Some(today), !.date = Some(date)]
    IN
    /\ pc[t] = "pv_date"
    /\ CASE loc[t].prov = Some("Mock") ->
              Finish(t, "done", [l EXCEPT !.info = Some(MockInfo(date))])
         [] loc[t].prov = Some("GrpcMock") -> Finish(t, "grpc_connect", l)
         [] loc[t].prov = Some("OpenWeather") -> Finish(t, "ow_weather", l)
         [] OTHER -> Finish(t, "wa_request", l)
    /\ UNCHANGED <<fs, phase, settings, lock, threads, faults, netCalls, History>>

\* A GrpcMock that reports the failed connection.
GrpcConnectStrict(t, ok) ==
    /\ pc[t] = "grpc_connect"
    /\ IF ok
       THEN Finish(t, "grpc_call", [loc[t] EXCEPT !.connects = @ + 1])
       ELSE Finish(t, "done", [loc[t] EXCEPT !.connects = @ + 1,
                                             !.ret = Err(ErrorOf("GrpcError"))])
    /\ UNCHANGED <<fs, phase, settings, lock, threads, faults, netCalls, History>>

\* GrpcMock: WeatherServiceClient::connect(MOCK_SERVER); when it fails, the
\* diagnostic on stderr and the static data.
GrpcConnect(t, ok) ==
    /\ pc[t] = "grpc_connect"
    /\ IF ok
       THEN Finish(t, "grpc_call", [loc[t] EXCEPT !.connects = @ + 1])
       ELSE Finish(t, "done",
                   [loc[t] EXCEPT !.connects = @ + 1, !.warned = TRUE,
                                  !.info = Some(GrpcStaticInfo(Unwrap(loc[t].date)))])
    /\ UNCHANGED <<fs, phase, settings, lock, threads, faults, netCalls, History>>

\* What the server can answer to the call: a failure, or a WeatherResponse;
\* its humidity is a 32-bit integer.
GrpcResponses ==
    { [ok |-> FALSE, body |-> <<>>] } \cup
    { [ok |-> TRUE,
       body |-> <<[country |-> "Remote Country", city |-> "Remote City",
                   date |-> <<"2","0","0","1","-","0","2","-","0","3">>, temperature |-> 7,
                   humidity |-> h, description |-> "Fog"]>>] : h \in {55, 300} }

\* GrpcMock: client.get_weather(request), and the mapping of the response
GrpcCall(t, response) ==
    /\ pc[t] = "grpc_call"
    /\ netCalls' = [netCalls EXCEPT ![t] = @ + 1]
    /\ IF ~response.ok
       THEN Finish(t, "done", [loc[t] EXCEPT !.ret = Err(ErrorOf("GrpcError"))])
       ELSE LET r == response.body[1] IN
            Finish(t, "done",
                   [loc[t] EXCEPT !.info =
                        Some(WeatherInfo(r.country, r.city, r.date, r.temperature,
                                         AsU8(r.humidity), Some(r.description)))])
    /\ UNCHANGED <<fs, phase, settings, lock, threads, faults, History>>

\* What the day_summary endpoint can answer.
OwResponses ==
    { [ok |-> FALSE, body |-> <<>>],
      [ok |-> TRUE, body |-> <<[temperature |-> 61, humidity |-> 70]>>] }

\* OpenWeather: reqwest::get(url) for the day summary, and the result
OwWeather(t, response) ==
    /\ pc[t] = "ow_weather"
    /\ netCalls' = [netCalls EXCEPT ![t] = @ + 1]
    /\ IF ~response.ok
       THEN Finish(t, "done", [loc[t] EXCEPT !.ret = Err(ErrorOf("Reqwest"))])
       ELSE LET body == response.body[1]
                location == Unwrap(loc[t].geo)
            IN  Finish(t, "done",
                       [loc[t] EXCEPT !.info =
                            Some(WeatherInfo(location.country, location.name,
                                             Unwrap(loc[t].date), body.temperature,
                                             body.humidity, None))])
    /\ UNCHANGED <<fs, phase, settings, lock, threads, faults, History>>

\* What current.json can answer.
WaResponses ==
    { [ok |-> FALSE, body |-> <<>>],
      [ok |-> TRUE,
       body |-> <<[name |-> "Kyiv", country |-> "Ukraine", temp_f |-> 50,
                   humidity |-> 60, text |-> "Clear"]>>] }

\* A WeatherApi backend that sends the request again when it failed.
WaRequestRetry(t, response) ==
    /\ pc[t] = "wa_request"
    /\ netCalls' = [netCalls EXCEPT ![t] = @ + 1]
    /\ IF ~response.ok
       THEN Finish(t, "wa_request", loc[t])
       ELSE LET body == response.body[1] IN
            Finish(t, "done",
                   [loc[t] EXCEPT !.info =
                        Some(WeatherInfo(body.country, body.name, Unwrap(loc[t].date),
                                         body.temp_f, body.humidity, Some(body.text)))])
    /\ UNCHANGED <<fs, phase, settings, lock, threads, faults, History>>

\* WeatherApi: reqwest::get(url), and the result
WaRequest(t, response) ==
    /\ pc[t] = "wa_request"
    /\ netCalls' = [netCalls EXCEPT ![t] = @ + 1]
    /\ IF ~response.ok
       THEN Finish(t, "done", [loc[t] EXCEPT !.ret = Err(ErrorOf("Reqwest"))])
       ELSE LET body == response.body[1] IN
            Finish(t, "done",
                   [loc[t] EXCEPT !.info =
                        Some(WeatherInfo(body.country, body.name, Unwrap(loc[t].date),
                                         body.temp_f, body.humidity, Some(body.text)))])
    /\ UNCHANGED <<fs, phase, settings, lock, threads, faults, History>>

(***************************************************************************)
(* The process ends                                                        *)
(***************************************************************************)
ThreadsOf(p) == {t \in AllThreads : ProcOf(t) = p}

\* run() has returned and main ends: the process is gone, the files stay.
Exit(p) ==
    /\ phase[p] = "open"
    /\ \A t \in ThreadsOf(p) : pc[t] \in {"idle", "done"}
    /\ phase' = [phase EXCEPT ![p] = "closed"]
    /\ settings' = [settings EXCEPT ![p] = Unloaded]
    /\ clean' = [clean EXCEPT ![p] = Unloaded]
    /\ pc' = [t \in AllThreads |-> IF ProcOf(t) = p THEN "idle" ELSE pc[t]]
    /\ loc' = [t \in AllThreads |-> IF ProcOf(t) = p THEN IdleLoc ELSE loc[t]]
    /\ opened' = [opened EXCEPT ![p] = NotFresh]
    /\ UNCHANGED <<fs, lock, threads, faults, netCalls, lastSave, fileOrigin>>

MaxLen(f) == CHOOSE n \in {Len(f[x].data) : x \in DOMAIN f} :
                \A x \in DOMAIN f : Len(f[x].data) <= n

\* The process is killed or the machine loses power, at any point: memory is
\* gone; of a file that was not synced only some prefix is sure to be on disk.
Crash(p) ==
    /\ phase[p] = "open"
    /\ faults < MaxFaults
    /\ faults' = faults + 1
    /\ \E cut \in [DOMAIN fs -> 0..MaxLen(fs)] :
          /\ \A x \in DOMAIN fs :
                /\ cut[x] <= Len(fs[x].data)
                /\ fs[x].synced => cut[x] = Len(fs[x].data)
          /\ fs' = [x \in DOMAIN fs |->
                      IF fs[x].exists
                      THEN File(SubSeq(fs[x].data, 1, cut[x]), TRUE)
                      ELSE NoFile]
    /\ phase' = [phase EXCEPT ![p] = "closed"]
    /\ settings' = [settings EXCEPT ![p] = Unloaded]
    /\ clean' = [clean EXCEPT ![p] = Unloaded]
    /\ lock' = [lock EXCEPT ![p] = Unlocked]
    /\ pc' = [t \in AllThreads |-> IF ProcOf(t) = p THEN "idle" ELSE pc[t]]
    /\ loc' = [t \in AllThreads |-> IF ProcOf(t) = p THEN IdleLoc ELSE loc[t]]
    /\ opened' = [opened EXCEPT ![p] = NotFresh]
    /\ UNCHANGED <<threads, netCalls, lastSave, fileOrigin>>

(***************************************************************************)
(* Inputs                                                                  *)
(***************************************************************************)
AliasPool == << <<"a">>, <<"b">>, <<"c">> >>

\* The aliases the commands set and remove.
ValidAliases == {AliasPool[1], AliasPool[2]}

\* Alias arguments: the valid ones, one that needs trimming, the empty one,
\* a blank one and one of six characters.
AliasArgs ==
    ValidAliases \cup {<<" ","a"," ">>, <<>>, <<" ">>, <<"a","b","c","d","e","f">>}

AddressArgs == {None, Some(<<"L">>), Some(<<" ">>), Some(<<>>)}

\* What the config file can hold when the tool starts: nothing, text that is
\* no JSON, a document cut short, a document the tool wrote, and documents
\* written by hand with fields left out or added.
InitFiles ==
    { NoFile,
      File(<< <<"garbage">> >>, TRUE),
      File(<< <<"open">>, <<"addresses", <<>> >> >>, TRUE),
      File(Serialize(DefaultSettings), TRUE),
      File(<< <<"open">>, <<"close">> >>, TRUE),
      File(<< <<"open">>, <<"addresses", << <<AliasPool[2], <<"B">> >> >> >>, <<"close">> >>, TRUE),
      File(<< <<"open">>, <<"default_alias", AliasPool[1]>>,
              <<"default_provider", <<"z">> >>, <<"close">> >>, TRUE),
      File(<< <<"open">>, <<"version", <<"1">> >>,
              <<"providers", << <<id("OpenWeather"), <<>> >> >> >>, <<"close">> >>, TRUE),
      File(<< <<"open">>, <<"addresses", <<>> >>, <<"addresses", <<>> >>, <<"close">> >>, TRUE) }

InitCommon ==
    /\ phase = [p \in Procs |-> "closed"]
    /\ settings = [p \in Procs |-> Unloaded]
    /\ lock = [p \in Procs |-> Unlocked]
    /\ pc = [t \in AllThreads |-> "idle"]
    /\ loc = [t \in AllThreads |-> IdleLoc]
    /\ netCalls = [t \in AllThreads |-> 0]
    /\ faults = 0
    /\ clean = [p \in Procs |-> Unloaded]
    /\ lastSave = [old |-> fs[SettingsFile], new |-> fs[SettingsFile].data]
    /\ opened = [p \in Procs |-> NotFresh]
    /\ fileOrigin = None

(***************************************************************************)
(* Spec: the tool as main runs it.  Each process loads the config, runs    *)
(* one alias command and ends; the next invocation is a new process on     *)
(* the same files.  Any step of a save can fail and the process can die    *)
(* at any point.                                                           *)
(***************************************************************************)
Init ==
    /\ \E f \in InitFiles :
          fs = [x \in Paths |-> IF x = SettingsFile THEN f ELSE NoFile]
    /\ threads = {"main"}
    /\ InitCommon

Next ==
    \/ \E t \in threads : Open(t)
    \/ \E t \in threads, alias \in AliasArgs, address \in AddressArgs : SetAlias(t, alias, address)
    \/ \E t \in threads : SetDefaultCheck(t)
    \/ \E t \in threads, alias \in ValidAliases : RemoveAlias(t, alias)
    \/ \E t \in threads : WmLock(t)
    \/ \E t \in threads : WmMutate1(t)
    \/ \E t \in threads : WmMutate2(t)
    \/ \E t \in threads, ok \in BOOLEAN : SaveCreateDir(t, ok)
    \/ \E t \in threads, ok \in BOOLEAN : SaveCreateTmp(t, ok)
    \/ \E t \in threads, ok \in BOOLEAN : SaveSerialize(t, ok)
    \/ \E t \in threads, ok \in BOOLEAN : SaveFlush(t, ok)
    \/ \E t \in threads, ok \in BOOLEAN : SaveSync(t, ok)
    \/ \E t \in threads, ok \in BOOLEAN, removed \in BOOLEAN : SaveRename(t, ok, removed)
    \/ \E t \in threads : WmExit(t)
    \/ \E p \in Procs : Exit(p)
    \/ \E p \in Procs : Crash(p)

Spec == Init /\ [][Next]_vars

(***************************************************************************)
(* SpecThreads: two threads of one process share the store; each makes one *)
(* call, get or an alias command, in any interleaving; a save can fail.    *)
(***************************************************************************)
InitThreads ==
    /\ \E f \in {NoFile,
                 File(<< <<"open">>, <<"addresses", << <<AliasPool[2], <<"B">> >> >> >>,
                         <<"close">> >>, TRUE)} :
          fs = [x \in Paths |-> IF x = SettingsFile THEN f ELSE NoFile]
    /\ threads = {"t1", "t2"}
    /\ InitCommon

NextThreads ==
    \/ \E t \in threads : Open(t)
    \/ \E t \in threads : Get(t)
    \/ \E t \in threads : DropGuard(t)
    \/ \E t \in threads, alias \in ValidAliases, address \in {None, Some(<<"L">>)} :
          SetAlias(t, alias, address)
    \/ \E t \in threads : SetDefaultCheck(t)
    \/ \E t \in threads, alias \in ValidAliases : RemoveAlias(t, alias)
    \/ \E t \in threads : WmLock(t)
    \/ \E t \in threads : WmMutate1(t)
    \/ \E t \in threads : WmMutate2(t)
    \/ \E t \in threads, ok \in BOOLEAN : SaveCreateDir(t, ok)
    \/ \E t \in threads, ok \in BOOLEAN : SaveCreateTmp(t, ok)
    \/ \E t \in threads, ok \in BOOLEAN : SaveSerialize(t, ok)
    \/ \E t \in threads, ok \in BOOLEAN : SaveFlush(t, ok)
    \/ \E t \in threads, ok \in BOOLEAN : SaveSync(t, ok)
    \/ \E t \in threads, ok \in BOOLEAN, removed \in BOOLEAN : SaveRename(t, ok, removed)
    \/ \E t \in threads : WmExit(t)

SpecThreads == InitThreads /\ [][NextThreads]_vars

(***************************************************************************)
(* Config files written by hand: any field present or absent, map entries  *)
(* in any order, provider entries with and without a key, defaults that    *)
(* name something, nothing, or something unknown.                          *)
(***************************************************************************)
AddressesLines ==
    { <<>>,
      << <<"addresses", <<>> >> >>,
      << <<"addresses", << <<AliasPool[1], <<"L">> >> >> >> >>,
      << <<"addresses", << <<AliasPool[2], <<"B">> >>, <<AliasPool[1], <<>> >> >> >> >> }

DefaultAliasLines ==
    { <<>>,
      << <<"default_alias", AliasPool[1]>> >>,
      << <<"default_alias", AliasPool[3]>> >> }

ProvidersLines ==
    { <<>>,
      << <<"providers", <<>> >> >>,
      << <<"providers", << <<id("OpenWeather"), <<>> >> >> >> >>,
      << <<"providers", << <<id("OpenWeather"), << <<"key", <<>> >> >> >> >> >> >>,
      << <<"providers", << <<id("OpenWeather"), << <<"key", <<"k">> >> >> >> >> >> >>,
      << <<"providers", << <<id("OpenWeather"), << <<"key", <<"k">> >> >> >>,
                           <<id("Mock"), << <<"key", <<"m">> >> >> >> >> >> >>,
      << <<"providers", << <<id("GrpcMock"), << <<"key", <<"g">> >> >> >>,
                           <<id("WeatherApi"), << <<"key", <<"w">> >> >> >> >> >> >> }

DefaultProviderLines ==
    { <<>>,
      << <<"default_provider", <<"o","w">> >> >>,
      << <<"default_provider", <<"O","W">> >> >>,
      << <<"default_provider", <<"z">> >> >>,
      << <<"default_provider", <<"m","o","c","k">> >> >> }

InitDocs ==
    { << <<"open">> >> \o al \o da \o pl \o dp \o << <<"close">> >> :
        al \in AddressesLines, da \in DefaultAliasLines,
        pl \in ProvidersLines, dp \in DefaultProviderLines }
    \cup { Serialize(DefaultSettings) }

InitDocFile ==
    /\ \E doc \in InitDocs :
          fs = [x \in Paths |-> IF x = SettingsFile THEN File(doc, TRUE) ELSE NoFile]
    /\ threads = {"main"}
    /\ InitCommon

(***************************************************************************)
(* SpecRT: a process loads the file, runs one command that saves, and      *)
(* ends; the next process reopens the store from the same path.            *)
(***************************************************************************)
ProviderArgs == {<<"o","w">>, <<"M","O","C","K">>, <<"g","r","p","c">>, <<"z">>}

KeyArgs == {None, Some(<<>>), Some(<<"k">>)}

NextRT ==
    \/ \E t \in threads : Open(t)
    \/ \E t \in threads, provider \in ProviderArgs, key \in KeyArgs : SetProvider(t, provider, key)
    \/ \E t \in threads, alias \in ValidAliases : RemoveAlias(t, alias)
    \/ \E t \in threads : WmLock(t)
    \/ \E t \in threads : WmMutate1(t)
    \/ \E t \in threads : WmMutate2(t)
    \/ \E t \in threads : SaveCreateDir(t, TRUE)
    \/ \E t \in threads : SaveCreateTmp(t, TRUE)
    \/ \E t \in threads : SaveSerialize(t, TRUE)
    \/ \E t \in threads : SaveFlush(t, TRUE)
    \/ \E t \in threads : SaveSync(t, TRUE)
    \/ \E t \in threads : SaveRename(t, TRUE, TRUE)
    \/ \E t \in threads : WmExit(t)
    \/ \E p \in Procs : Exit(p)

SpecRT == InitDocFile /\ [][NextRT]_vars

(***************************************************************************)
(* SpecGet: a process loads the file and runs one `get`.                   *)
(***************************************************************************)
\* Provider tokens: ids and names in lower, upper and mixed case, and strings
\* that are neither.
ProviderTokens ==
    { <<"m","o","c","k">>, <<"M","O","C","K">>, <<"M","o","c","K">>,
      <<"g","r","p","c">>, <<"G","r","P","c">>,
      <<"o","w">>, <<"O","W">>, <<"o","W">>,
      <<"w","a">>, <<"W","a">>,
      <<"M","o","c","k","W","e","a","t","h","e","r">>,
      <<"m","o","c","k","w","e","a","t","h","e","r">>,
      <<"G","r","p","c","M","o","c","k","W","e","a","t","h","e","r">>,
      <<"G","R","P","C","M","O","C","K","W","E","A","T","H","E","R">>,
      <<"O","p","e","n","W","e","a","t","h","e","r">>,
      <<"o","p","e","n","w","e","a","t","h","e","R">>,
      <<"W","e","a","t","h","e","r","A","p","i">>,
      <<"W","E","A","T","H","E","R","A","P","I">>,
      <<>>, <<" ">>, <<"z">>, <<"o">>, <<"w">>, <<"o","w","1">>, <<" ","o","w">>,
      <<"o","w"," ">>, <<"m","o","c","k","_">>, <<"g","r","p","c","m","o","c","k">>,
      <<"w","e","a","t","h","e","r">>, <<"o","p","e","n","-","w","e","a","t","h","e","r">> }

\* The UTC day of the runs of `get`.
Today == [year |-> 2026, month |-> 11, day |-> 6]

ProviderInputs == {None} \cup {Some(s) : s \in ProviderTokens}

\* Address arguments of `get`: none, an alias, the alias in upper case, and a
\* name that a config can hold as default alias without an entry for it.
AddressInputs == {None, Some(AliasPool[1]), Some(<<"A">>), Some(AliasPool[3])}

NextGet ==
    \/ \E t \in threads : Open(t)
    \/ \E t \in threads, address \in AddressInputs,
          provider \in {None, Some(id("OpenWeather")), Some(id("Mock"))} :
          GetWeather(t, address, None, provider)
    \/ \E t \in threads, provider \in ProviderInputs :
          GetWeather(t, Some(AliasPool[1]), None, provider)
    \/ \E t \in threads : ResolveProvider(t)
    \/ \E t \in threads : ResolveAddress(t)
    \/ \E t \in threads : Fetch(t)
    \/ \E t \in threads : ProviderKey(t)
    \/ \E t \in threads, response \in GeoResponses : OwGeocode(t, response)
    \/ \E t \in threads : NormalizeDate(t, Today)
    \/ \E t \in threads, ok \in BOOLEAN : GrpcConnect(t, ok)
    \/ \E t \in threads, response \in GrpcResponses : GrpcCall(t, response)
    \/ \E t \in threads, response \in OwResponses : OwWeather(t, response)
    \/ \E t \in threads, response \in WaResponses : WaRequest(t, response)
    \/ \E p \in Procs : Exit(p)

SpecGet == InitDocFile /\ [][NextGet]_vars

(***************************************************************************)
(* SpecFetch: the backends, called by `get` after resolution and called by *)
(* a user of the library, over date arguments in and out of the six        *)
(* formats, on two UTC days, with every answer the remote ends can give.   *)
(***************************************************************************)
DateStrings ==
    {
      <<"2","0","2","3","-","1","0","-","0","5">>, <<"1","0","/","5","/","2","0","2","3">>,
      <<"0","5",".","1","0",".","2","0","2","3">>, <<"5","-","1","0","-","2","0","2","3">>,
      <<"0","5"," ","O","c","t"," ","2","0","2","3">>, <<"2","0","2","3","/","1","0","/","0","5">>,
      <<"n","o","t","-","a","-","d","a","t","e">>, <<>>,
      <<"2","0","2","3","-","0","2","-","3","0">>, <<"2","0","2","4","-","0","2","-","2","9">>,
      <<"1","3","/","0","1","/","2","0","2","3">>, <<" ","2","0","2","3","-","1","0","-","0","5">>,
      <<"2","0","2","3","-","1","0","-","0","5"," ">>, <<"0","5","-","1","0","-","2","0">>,
      <<"+","1","0","0","0","0","-","0","1","-","0","1">>, <<"-","0","0","0","1","-","0","1","-","0","1">> }

DateInputs == {None} \cup {Some(s) : s \in DateStrings}

\* Calendar dates: days up to and above 12, a leap day, the first and the
\* last day of a year, years that read like a day or a month.
Dates ==
    { [year |-> 2023, month |-> 10, day |-> 5], [year |-> 2023, month |-> 5, day |-> 10],
      [year |-> 2024, month |-> 2, day |-> 29], [year |-> 2000, month |-> 2, day |-> 29],
      [year |-> 2023, month |-> 12, day |-> 31], [year |-> 2023, month |-> 1, day |-> 1],
      [year |-> 2023, month |-> 1, day |-> 13], [year |-> 2012, month |-> 12, day |-> 12],
      [year |-> 1, month |-> 1, day |-> 1], [year |-> 12, month |-> 10, day |-> 5],
      [year |-> 1999, month |-> 7, day |-> 20], [year |-> 9999, month |-> 12, day |-> 31] }

\* Each date written in each of the six formats.
WrittenDates ==
    { format(d, POSSIBLE_FORMATS[i]) : d \in Dates, i \in 1..Len(POSSIBLE_FORMATS) }

Days == {Today, [year |-> 2027, month |-> 1, day |-> 1]}

FetchKeys == {None, Some(<<>>), Some(<<"k">>)}

\* Config files for SpecFetch: none of the sections; an empty key for ow
\* with a key for wa; a key for grpc, mock and ow with an empty key for wa
\* and grpc as default.
FetchDocs ==
    { << <<"open">>, <<"close">> >>,
      << <<"open">>,
         <<"addresses", << <<AliasPool[1], <<"L">> >> >> >>,
         <<"default_alias", AliasPool[1]>>,
         <<"providers", << <<id("OpenWeather"), << <<"key", <<>> >> >> >>,
                           <<id("WeatherApi"), << <<"key", <<"k">> >> >> >> >> >>,
         <<"close">> >>,
      << <<"open">>,
         <<"addresses", << <<AliasPool[1], <<"L">> >> >> >>,
         <<"providers", << <<id("GrpcMock"), << <<"key", <<"g">> >> >> >>,
                           <<id("Mock"), << <<"key", <<"m">> >> >> >>,
                           <<id("OpenWeather"), << <<"key", <<"k">> >> >> >>,
                           <<id("WeatherApi"), << <<"key", <<>> >> >> >> >> >>,
         <<"default_provider", id("GrpcMock")>>,
         <<"close">> >> }

InitFetch ==
    /\ \E doc \in FetchDocs :
          fs = [x \in Paths |-> IF x = SettingsFile THEN File(doc, TRUE) ELSE NoFile]
    /\ threads = {"main"}
    /\ InitCommon

FetchProviderInputs == {None} \cup {Some(id(v)) : v \in Providers}

NextFetch ==
    \/ \E t \in threads : Open(t)
    \/ \E t \in threads, address \in {None, Some(<<"L">>)}, date \in DateInputs,
          provider \in FetchProviderInputs : GetWeather(t, address, date, provider)
    \/ \E t \in threads : ResolveProvider(t)
    \/ \E t \in threads : ResolveAddress(t)
    \/ \E t \in threads : Fetch(t)
    \/ \E t \in threads, provider \in Providers, key \in FetchKeys, date \in DateInputs :
          LibGetWeather(t, provider, key, <<"N","o","w","h","e","r","e">>, date)
    \/ \E t \in threads, date \in WrittenDates :
          LibGetWeather(t, "Mock", None, <<"N","o","w","h","e","r","e">>, Some(date))
    \/ \E t \in threads : ProviderKey(t)
    \/ \E t \in threads, response \in GeoResponses : OwGeocode(t, response)
    \/ \E t \in threads, today \in Days : NormalizeDate(t, today)
    \/ \E t \in threads, ok \in BOOLEAN : GrpcConnect(t, ok)
    \/ \E t \in threads, response \in GrpcResponses : GrpcCall(t, response)
    \/ \E t \in threads, response \in OwResponses : OwWeather(t, response)
    \/ \E t \in threads, response \in WaResponses : WaRequest(t, response)
    \/ \E p \in Procs : Exit(p)

SpecFetch == InitFetch /\ [][NextFetch]_vars

(***************************************************************************)
(* Claims checked under Spec                                               *)
(***************************************************************************)
LivePath == SettingsFile
TmpFile == fs[with_extension(SettingsFile, "tmp")]
SavePcs == {"sv_dir", "sv_create", "sv_ser", "sv_flush", "sv_sync", "sv_rename"}
InWithMut(t) == pc[t] \in {"wm_f1", "wm_f2", "wm_exit"} \cup SavePcs
Applied(m, s) == MutStep2(m, MutStep1(m, s))

\* C1: at every point of a save, and after a crash at any of its points, the
\* live config path holds either the complete file it held before the save
\* or the complete document the save writes; never a part of a document.
C1_LiveIsOldOrNew ==
    \/ fs[LivePath] = lastSave.old
    \/ /\ fs[LivePath].exists
       /\ fs[LivePath].data = lastSave.new
       /\ Parses(lastSave.new)

\* C1 witness: the process died in the middle of writing the temporary file
\* (part of the new document is in it) and the live file is the old one.
C1_Witness ==
    /\ phase["P1"] = "closed"
    /\ faults >= 1
    /\ TmpFile.exists
    /\ TmpFile.data # <<>>
    /\ TmpFile.data # lastSave.new
    /\ lastSave.old.data # lastSave.new
    /\ fs[LivePath] = lastSave.old

\* C2: with_mut holds the write lock from the closure to the end of the save,
\* and when it returns Ok the live file is the serialization of the settings
\* as the closure left them and the value returned is the closure's.
C2_WithMutSavesBeforeReturn ==
    \A t \in threads :
        /\ InWithMut(t) => lock[ProcOf(t)].writer = Some(t)
        /\ (pc[t] \in {"wm_exit", "done"} /\ loc[t].mut # NoMut /\ loc[t].ret.ok) =>
              /\ fs[LivePath].exists
              /\ fs[LivePath].data = Serialize(settings[ProcOf(t)])
              /\ settings[ProcOf(t)] = Applied(loc[t].mut, loc[t].s0)
              /\ loc[t].ret.v = MutReturn(loc[t].mut, loc[t].s0)

\* C2 witness: a set_alias that changed the settings has returned Ok.
C2_Witness ==
    /\ pc["main"] = "done"
    /\ loc["main"].mut.op = "set_alias"
    /\ loc["main"].ret.ok
    /\ settings["P1"] # loc["main"].s0

C7_NoChangeLeavesFileIdentical ==
    \A t \in threads :
        (pc[t] = "done" /\ loc[t].mut # NoMut
            /\ settings[ProcOf(t)] = loc[t].s0 /\ loc[t].live0.exists) =>
            /\ fs[LivePath].exists
            /\ fs[LivePath].data = loc[t].live0.data

\* C7 amended: after a with_mut whose closure changed nothing, a config file
\* that held the serialization of the settings in memory is byte for byte
\* what it was before the call.
C7_NoChangeLeavesCanonicalFileIdentical ==
    \A t \in threads :
        (pc[t] = "done" /\ loc[t].mut # NoMut
            /\ settings[ProcOf(t)] = loc[t].s0
            /\ loc[t].live0.exists /\ loc[t].live0.data = Serialize(loc[t].s0)) =>
            /\ fs[LivePath].exists
            /\ fs[LivePath].data = loc[t].live0.data

\* C7 witness: remove_alias of an alias that is not there has saved and
\* returned Ok on a file the tool had written.
C7_Witness ==
    /\ pc["main"] = "done"
    /\ loc["main"].mut.op = "remove_alias"
    /\ loc["main"].ret.ok
    /\ loc["main"].fret = <<FALSE, FALSE>>
    /\ settings["P1"] = loc["main"].s0
    /\ loc["main"].live0.exists
    /\ loc["main"].live0.data = Serialize(loc["main"].s0)
    /\ fs[LivePath].data = loc["main"].live0.data

(***************************************************************************)
(* Claims checked under SpecThreads                                        *)
(***************************************************************************)
\* C4: a writer never holds the store together with a reader or another
\* writer; while a reader holds its guard no with_mut is between taking the
\* lock and returning (closure and save included), and the settings the
\* reader sees are the ones a load or a complete mutator left.
C4_WriterExcludesReadersAndWriters ==
    \A p \in Procs :
        /\ lock[p].writer # None => lock[p].readers = {}
        /\ Cardinality({t \in threads \cap ThreadsOf(p) : InWithMut(t)}) <= 1
        /\ \A t \in threads \cap ThreadsOf(p) : InWithMut(t) => lock[p].writer = Some(t)
        /\ \A t \in threads \cap ThreadsOf(p) :
              pc[t] = "reading" =>
                  /\ t \in lock[p].readers
                  /\ \A u \in threads \cap ThreadsOf(p) : ~InWithMut(u)
                  /\ settings[p] = clean[p]

\* C4 witness: one thread holds a read guard on settings a set_alias of the
\* other thread had changed and saved before the reader came in.
C4_Witness ==
    /\ pc["t1"] = "reading"
    /\ pc["t2"] = "done"
    /\ loc["t2"].mut.op = "set_alias"
    /\ settings["P1"] # loc["t2"].s0
    /\ loc["t1"].live0 # loc["t2"].live0

(***************************************************************************)
(* Claims about opening the store                                          *)
(***************************************************************************)
\* Settings::default() spelled out: the mock and grpc entries with their
\* sentinel keys, no aliases, no defaults.
IsDefaultSettings(s) ==
    /\ s.addresses = EmptyMap
    /\ s.default_alias = None
    /\ s.default_provider = None
    /\ DOMAIN s.providers = {<<"m","o","c","k">>, <<"g","r","p","c">>}
    /\ s.providers[<<"m","o","c","k">>].key = Some(<<"m","o","c","k","-","k","e","y">>)
    /\ s.providers[<<"g","r","p","c">>].key
            = Some(<<"g","r","p","c","-","m","o","c","k","-","k","e","y">>)

\* C5: right after AppConfig::new the process has its store, the files are
\* what they were, and the settings are the defaults for a missing file and
\* for a file that does not parse; for a file that parses, every field the
\* file lacks is the empty map or None (`providers` too).
C5_OpenNeverFailsNorWrites ==
    \A p \in Procs :
        opened[p].fresh =>
            LET f == opened[p].from[SettingsFile] IN
            /\ phase[p] = "open"
            /\ fs = opened[p].from
            /\ ~f.exists => IsDefaultSettings(settings[p])
            /\ (f.exists /\ ~Parses(f.data)) => IsDefaultSettings(settings[p])
            /\ (f.exists /\ Parses(f.data)) =>
                  /\ ~HasField(f.data, "addresses") => settings[p].addresses = EmptyMap
                  /\ ~HasField(f.data, "providers") => settings[p].providers = EmptyMap
                  /\ ~HasField(f.data, "default_alias") => settings[p].default_alias = None
                  /\ ~HasField(f.data, "default_provider") => settings[p].default_provider = None

\* C5 witness: a file with addresses and no `providers` field was opened; the
\* providers map is empty and the aliases are there.
C5_Witness ==
    /\ opened["P1"].fresh
    /\ fs[SettingsFile].exists
    /\ Parses(fs[SettingsFile].data)
    /\ ~HasField(fs[SettingsFile].data, "providers")
    /\ HasField(fs[SettingsFile].data, "addresses")
    /\ settings["P1"].providers = EmptyMap
    /\ settings["P1"].addresses # EmptyMap

(***************************************************************************)
(* Claims checked under SpecRT                                             *)
(***************************************************************************)
\* C6: a store reopened from the path a save wrote holds settings equal to
\* the settings that were saved.
C6_RoundTrip ==
    \A p \in Procs :
        (opened[p].fresh /\ fileOrigin # None) => settings[p] = Unwrap(fileOrigin)

\* C6 witness: the settings saved and read back have aliases, a default
\* alias, a provider entry without a key, and a default provider.
C6_Witness ==
    /\ opened["P1"].fresh
    /\ fileOrigin # None
    /\ settings["P1"] = Unwrap(fileOrigin)
    /\ Cardinality(DOMAIN settings["P1"].addresses) = 2
    /\ settings["P1"].default_alias # None
    /\ id("OpenWeather") \in DOMAIN settings["P1"].providers
    /\ settings["P1"].providers[id("OpenWeather")].key = None
    /\ settings["P1"].default_provider = Some(id("Mock"))

(***************************************************************************)
(* Claims checked under SpecGet                                            *)
(***************************************************************************)
\* Two characters that are equal or the upper and lower case of one letter.
SameLetter(c, d) ==
    \/ c = d
    \/ \E i \in 1..Len(UpperChars) :
          \/ c = UpperChars[i] /\ d = LowerChars[i]
          \/ c = LowerChars[i] /\ d = UpperChars[i]

EqIgnoreCase(a, b) ==
    /\ Len(a) = Len(b)
    /\ \A i \in 1..Len(a) : SameLetter(a[i], b[i])

\* The token is the id or the display name of the variant, in any case.
Names(tok, v) == EqIgnoreCase(tok, id(v)) \/ EqIgnoreCase(tok, name(v))

Known(tok) == \E v \in Providers : Names(tok, v)

\* get_weather is past resolve_provider.
Resolved(t) ==
    loc[t].cmd = "get_weather" /\ pc[t] \notin {"idle", "gw_provider"}

\* Resolution took the variant: it went on with it, or stopped for its key.
Chose(t, v) ==
    \/ loc[t].prov = Some(v)
    \/ /\ loc[t].prov = None
       /\ pc[t] = "done"
       /\ loc[t].ret.err.kind = "MissingCredential"
       /\ loc[t].ret.err.token = id(v)

\* Resolution stopped with the unknown-provider error for the token, which
\* lists the four ids.
FailedUnknown(t, tok) ==
    /\ pc[t] = "done"
    /\ ~loc[t].ret.ok
    /\ loc[t].prov = None
    /\ ~loc[t].fetched
    /\ loc[t].ret.err.kind = "UnknownProvider"
    /\ loc[t].ret.err.token = tok
    /\ Len(loc[t].ret.err.listed) = 4
    /\ {loc[t].ret.err.listed[i][2] : i \in 1..4}
            = {<<"m","o","c","k">>, <<"g","r","p","c">>, <<"o","w">>, <<"w","a">>}

\* C8 as stated: with no provider token, a default_provider that names a
\* variant is taken; one that is unset or names nothing gives the Mock, and
\* that resolution succeeds.
C8_UnparsableDefaultFallsBackToMock ==
    \A t \in threads :
        (Resolved(t) /\ loc[t].pin = None) =>
            LET d == settings[ProcOf(t)].default_provider IN
            IF d # None /\ Known(Unwrap(d))
            THEN \A v \in Providers : Names(Unwrap(d), v) => Chose(t, v)
            ELSE loc[t].prov = Some("Mock")

\* C8 amended: with no provider token, a default_provider that names a
\* variant is taken; an unset one gives the Mock, and whenever the Mock is
\* taken resolution succeeds, key or no key; a default_provider that is set
\* and names no variant makes resolution fail with the unknown-provider
\* error.
C8_DefaultProviderResolution ==
    \A t \in threads :
        (Resolved(t) /\ loc[t].pin = None) =>
            LET d == settings[ProcOf(t)].default_provider IN
            /\ d = None => loc[t].prov = Some("Mock")
            /\ (d # None /\ Known(Unwrap(d))) =>
                  \A v \in Providers : Names(Unwrap(d), v) => Chose(t, v)
            /\ (d # None /\ Names(Unwrap(d), "Mock")) => loc[t].prov = Some("Mock")
            /\ (d # None /\ ~Known(Unwrap(d))) => FailedUnknown(t, Unwrap(d))

\* C8 witness: `get` without a provider token on a config whose
\* default_provider names no variant has stopped with the error.
C8_Witness ==
    /\ Resolved("main")
    /\ loc["main"].pin = None
    /\ settings["P1"].default_provider = Some(<<"z">>)
    /\ FailedUnknown("main", <<"z">>)

\* C9: the ids of the four variants differ; a token that is the id or the
\* name of a variant in any case resolves to that variant; any other token,
\* the empty one too, makes `get` fail with the unknown-provider error that
\* carries the token and lists the four ids.
C9_ParseAcceptsExactlyIdsAndNames ==
    /\ \A v, w \in Providers : v # w => id(v) # id(w)
    /\ \A t \in threads :
          (Resolved(t) /\ loc[t].pin # None) =>
              LET tok == Unwrap(loc[t].pin) IN
              IF Known(tok)
              THEN \A v \in Providers : Names(tok, v) => Chose(t, v)
              ELSE FailedUnknown(t, tok)

\* C9 witness: the token "OW" resolved to OpenWeather.
C9_Witness ==
    /\ Resolved("main")
    /\ loc["main"].pin = Some(<<"O","W">>)
    /\ loc["main"].prov = Some("OpenWeather")

\* The token resolution works on: the explicit one, else the default.
Effective(t) ==
    IF loc[t].pin # None THEN loc[t].pin ELSE settings[ProcOf(t)].default_provider

\* C10: when the variant named is not the Mock and no key is stored under
\* its id, `get` stops with the missing-credential error; and a `get` that
\* stopped with an error of provider or address resolution has started no
\* fetch and no network call; a fetch starts only with provider and address
\* both resolved.
C10_NoFetchUnlessResolved ==
    \A t \in threads :
        loc[t].cmd = "get_weather" =>
            /\ (Resolved(t) /\ Effective(t) # None) =>
                  \A v \in Providers \ {"Mock"} :
                      (Names(Unwrap(Effective(t)), v)
                            /\ StoredKey(settings[ProcOf(t)], id(v)) = None) =>
                          /\ pc[t] = "done"
                          /\ ~loc[t].ret.ok
                          /\ loc[t].ret.err.kind = "MissingCredential"
            /\ (pc[t] = "done" /\ ~loc[t].ret.ok /\ loc[t].addr = None) =>
                  loc[t].ret.err.kind \in
                        {"UnknownProvider", "MissingCredential", "NoAddressSpecified"}
            /\ (pc[t] = "done" /\ ~loc[t].ret.ok /\ loc[t].ret.err.kind \in
                        {"UnknownProvider", "MissingCredential", "NoAddressSpecified"}) =>
                  /\ ~loc[t].fetched
                  /\ netCalls[t] = 0
            /\ loc[t].fetched => (loc[t].prov # None /\ loc[t].addr # None)
            /\ netCalls[t] > 0 => loc[t].fetched

\* C10 witness: `get --provider ow` on a config whose ow entry has no key has
\* stopped with the missing-credential error and no fetch.
C10_Witness ==
    /\ pc["main"] = "done"
    /\ loc["main"].cmd = "get_weather"
    /\ loc["main"].pin = Some(<<"o","w">>)
    /\ id("OpenWeather") \in DOMAIN settings["P1"].providers
    /\ loc["main"].ret.err.kind = "MissingCredential"
    /\ ~loc["main"].fetched
    /\ netCalls["main"] = 0

(***************************************************************************)
(* Claims about address resolution, checked under SpecGet                  *)
(***************************************************************************)
\* get_weather is past resolve_address (it succeeded or failed).
AddressDone(t) ==
    /\ loc[t].cmd = "get_weather"
    /\ loc[t].prov # None
    /\ pc[t] \notin {"idle", "gw_provider", "gw_address"}

AddressFailed(t) ==
    /\ pc[t] = "done"
    /\ ~loc[t].ret.ok
    /\ loc[t].ret.err.kind = "NoAddressSpecified"
    /\ loc[t].addr = None

\* C11: with an address argument, resolution succeeds: the address is the
\* entry of `addresses` under exactly that string when there is one, else the
\* string itself; the default alias does not matter.
C11_AddressInputAliasOrLiteral ==
    \A t \in threads :
        (AddressDone(t) /\ loc[t].ain # None) =>
            LET input == Unwrap(loc[t].ain)
                addresses == settings[ProcOf(t)].addresses
            IN  /\ ~AddressFailed(t)
                /\ input \in DOMAIN addresses => loc[t].addr = Some(addresses[input])
                /\ input \notin DOMAIN addresses => loc[t].addr = Some(input)

\* C11 witness: the argument "A" is no key of a config that has the alias
\* "a" and a usable default alias, and went through as the address itself.
C11_Witness ==
    /\ AddressDone("main")
    /\ loc["main"].ain = Some(<<"A">>)
    /\ loc["main"].addr = Some(<<"A">>)
    /\ settings["P1"].default_alias = Some(AliasPool[1])
    /\ AliasPool[1] \in DOMAIN settings["P1"].addresses

\* C12: with no address argument, the address is the entry of the default
\* alias when that alias is set and has an entry; a default alias without an
\* entry gives a warning and the no-address error; no default alias gives the
\* no-address error; the settings and the files stay as loaded.
C12_NoInputUsesDefaultAliasOrFails ==
    \A t \in threads :
        (AddressDone(t) /\ loc[t].ain = None) =>
            LET s == settings[ProcOf(t)] IN
            /\ (s.default_alias # None /\ Unwrap(s.default_alias) \in DOMAIN s.addresses) =>
                  /\ loc[t].addr = Some(s.addresses[Unwrap(s.default_alias)])
                  /\ ~loc[t].warned
            /\ (s.default_alias # None /\ Unwrap(s.default_alias) \notin DOMAIN s.addresses) =>
                  AddressFailed(t) /\ loc[t].warned
            /\ s.default_alias = None => (AddressFailed(t) /\ ~loc[t].warned)
            /\ s = clean[ProcOf(t)]
            /\ fs[SettingsFile] = loc[t].live0

\* C12 witness: `get` with no address on a config whose default alias has no
\* entry stopped with the warning and the error.
C12_Witness ==
    /\ AddressDone("main")
    /\ loc["main"].ain = None
    /\ settings["P1"].default_alias = Some(AliasPool[3])
    /\ settings["P1"].addresses # EmptyMap
    /\ AddressFailed("main")
    /\ loc["main"].warned

(***************************************************************************)
(* Claims about set_alias, checked under Spec                              *)
(***************************************************************************)
\* set_alias(alias, Some(address)) passed its checks and with_mut has
\* returned (saved or not).
SetAliasRan(t) ==
    pc[t] = "done" /\ loc[t].cmd = "set_alias" /\ loc[t].mut.op = "set_alias"

\* The settings after a set_alias that stored `address` under `key`: every
\* other alias and the provider settings as before; the key is the default
\* if there was none, else the default is as before.
StoredUnder(t, key, address) ==
    LET before == loc[t].s0
        after == settings[ProcOf(t)]
    IN  /\ key \in DOMAIN after.addresses
        /\ after.addresses[key] = address
        /\ DOMAIN after.addresses = DOMAIN before.addresses \cup {key}
        /\ \A k \in DOMAIN before.addresses \ {key} :
                after.addresses[k] = before.addresses[k]
        /\ after.providers = before.providers
        /\ after.default_provider = before.default_provider
        /\ before.default_alias = None => after.default_alias = Some(key)
        /\ before.default_alias # None => after.default_alias = before.default_alias

\* C13 as stated: after set_alias(alias, Some(address)) with valid input the
\* address is stored under `alias`, nothing else changes, and `alias` is the
\* default only if there was none.
C13_SetAliasStoresUnderAlias ==
    \A t \in threads :
        SetAliasRan(t) => StoredUnder(t, loc[t].args[1], Unwrap(loc[t].args[2]))

\* C13 amended: after set_alias(alias, Some(address)) with valid input the
\* address, as given, is stored under the alias with the white space around
\* it trimmed; nothing else changes, and the trimmed alias is the default
\* only if there was none.
C13_SetAliasStoresUnderTrimmedAlias ==
    \A t \in threads :
        SetAliasRan(t) => StoredUnder(t, Trim(loc[t].args[1]), Unwrap(loc[t].args[2]))

\* C13 witness: set_alias(" a ", "L") on a config that had an alias and no
\* entry "a" has stored the address under "a".
C13_Witness ==
    /\ SetAliasRan("main")
    /\ loc["main"].args[1] = <<" ", "a", " ">>
    /\ loc["main"].s0.addresses # EmptyMap
    /\ AliasPool[1] \notin DOMAIN loc["main"].s0.addresses
    /\ settings["P1"].addresses[AliasPool[1]] = <<"L">>
    /\ loc["main"].s0.default_alias # None

\* The positions of a string that hold no white space.
Inked(s) == {i \in 1..Len(s) : s[i] # " "}

Blank(s) == Inked(s) = {}

\* The number of characters from the first to the last that is no white space.
TrimmedLen(s) ==
    IF Blank(s) THEN 0
    ELSE (CHOOSE i \in Inked(s) : \A j \in Inked(s) : j <= i)
            - (CHOOSE i \in Inked(s) : \A j \in Inked(s) : i <= j) + 1

NonEmptyKey(k) == k # None /\ Unwrap(k) # <<>>

\* set_provider(provider, key) has returned in thread t.
SetProviderDone(t) == pc[t] = "done" /\ loc[t].cmd = "set_provider"

\* C15: set_provider makes the provider the default exactly when it is Mock
\* or a non-empty key is stored for its id once the new key is applied;
\* otherwise the default stays, a warning is printed and the call returns Ok.
\* An empty key argument leaves the stored key alone; an unparseable
\* provider returns an error and changes neither settings nor file.
C15_SetProviderDefaultNeedsKey ==
    \A t \in threads : SetProviderDone(t) =>
        LET p == ProcOf(t)
            provider == loc[t].args[1]
            key == loc[t].args[2]
        IN  /\ ~Known(provider) =>
                  /\ ~loc[t].ret.ok
                  /\ loc[t].ret.err.kind = "UnknownProvider"
                  /\ loc[t].mut = NoMut
                  /\ settings[p] = clean[p]
                  /\ fs[LivePath] = loc[t].live0
            /\ \A v \in Providers : Names(provider, v) =>
                  LET before == StoredKey(loc[t].s0, id(v))
                      after == IF NonEmptyKey(key) THEN key ELSE before
                  IN  /\ loc[t].ret.ok
                      /\ StoredKey(settings[p], id(v)) = after
                      /\ \A w \in Providers \ {v} :
                            StoredKey(settings[p], id(w)) = StoredKey(loc[t].s0, id(w))
                      /\ settings[p].addresses = loc[t].s0.addresses
                      /\ settings[p].default_alias = loc[t].s0.default_alias
                      /\ IF is_mock(v) \/ NonEmptyKey(after)
                         THEN /\ settings[p].default_provider = Some(id(v))
                              /\ ~loc[t].warned
                         ELSE /\ settings[p].default_provider = loc[t].s0.default_provider
                              /\ loc[t].warned

\* C15 witness: set_provider("ow", "") on a config that holds a key for ow
\* and has another default has returned, and ow is the default.
C15_Witness ==
    /\ SetProviderDone("main")
    /\ loc["main"].args = << <<"o","w">>, Some(<<>>) >>
    /\ NonEmptyKey(StoredKey(loc["main"].s0, <<"o","w">>))
    /\ loc["main"].s0.default_provider # Some(<<"o","w">>)
    /\ settings["P1"].default_provider = Some(<<"o","w">>)

(***************************************************************************)
(* Claims checked under SpecFetch                                          *)
(***************************************************************************)
\* The backend of thread t was called and is past the look at its key.
PastKey(t) == loc[t].fetched /\ pc[t] # "pv_key"

HttpBackends == {"OpenWeather", "WeatherApi"}

\* C16: OpenWeather and WeatherApi need a credential that is not empty: a
\* fetch with no credential or with the empty string fails with the error
\* that names `weather provider <id> --key`, and sends no HTTP request.
C16_EmptyOrAbsentCredentialFails ==
    \A t \in threads :
        (/\ PastKey(t)
         /\ Unwrap(loc[t].prov) \in HttpBackends
         /\ (loc[t].key = None \/ loc[t].key = Some(<<>>))) =>
            /\ pc[t] = "done"
            /\ ~loc[t].ret.ok
            /\ loc[t].ret.err = ApiKeyNotSet(Unwrap(loc[t].prov))
            /\ netCalls[t] = 0

\* C16 witness: `get` with the OpenWeather backend and the empty string as
\* the stored key has sent an HTTP request.
C16_Witness ==
    /\ loc["main"].cmd = "get_weather"
    /\ loc["main"].prov = Some("OpenWeather")
    /\ loc["main"].key = Some(<<>>)
    /\ netCalls["main"] > 0

\* C17 as stated: one `get` issues at most one outbound network or RPC
\* call, whichever backend is resolved.
C17_AtMostOneCallPerGet ==
    \A t \in threads : loc[t].cmd = "get_weather" => netCalls[t] <= 1

\* C17: one `get` issues no call before the backend is resolved; none with
\* Mock; at most one HTTP request with WeatherApi; at most one connection
\* and, only once it stands, one RPC with GrpcMock; at most two HTTP
\* requests with OpenWeather, the second only after the geocoding request
\* has given a location.
C17_CallsPerGetByBackend ==
    \A t \in threads : loc[t].cmd = "get_weather" =>
        /\ ~loc[t].fetched => (netCalls[t] = 0 /\ loc[t].connects = 0)
        /\ loc[t].prov # Some("GrpcMock") => loc[t].connects = 0
        /\ loc[t].prov = Some("Mock") => netCalls[t] = 0
        /\ loc[t].prov = Some("WeatherApi") => netCalls[t] <= 1
        /\ loc[t].prov = Some("GrpcMock") =>
              /\ loc[t].connects <= 1
              /\ netCalls[t] <= loc[t].connects
        /\ loc[t].prov = Some("OpenWeather") =>
              /\ netCalls[t] <= 2
              /\ netCalls[t] = 2 => loc[t].geo # None

\* C17 witness: a `get` with OpenWeather has returned its result after two
\* HTTP requests.
C17_Witness ==
    /\ pc["main"] = "done"
    /\ loc["main"].cmd = "get_weather"
    /\ loc["main"].prov = Some("OpenWeather")
    /\ loc["main"].info # None
    /\ netCalls["main"] = 2

\* The GrpcMock backend of thread t has returned after a connection that
\* failed: it tried to connect and made no call.
GrpcConnectFailed(t) ==
    /\ loc[t].prov = Some("GrpcMock")
    /\ pc[t] = "done"
    /\ loc[t].connects = 1
    /\ netCalls[t] = 0

\* C18: when the connection to the local endpoint fails, GrpcMock returns
\* no error but its own static data (gRPC Mock Country, gRPC Mock City,
\* 42.0, 88, Rain (Mock)), which is not the data of the Mock, with the
\* normalized date argument as date.
C18_GrpcConnectFailureGivesStaticData ==
    \A t \in threads : GrpcConnectFailed(t) =>
        /\ loc[t].ret.ok
        /\ loc[t].info # None
        /\ LET info == Unwrap(loc[t].info) IN
              /\ info.country = "gRPC Mock Country"
              /\ info.city = "gRPC Mock City"
              /\ info.temperature = 42
              /\ info.humidity = 88
              /\ info.description = Some("Rain (Mock)")
              /\ info.date = normalize_date(loc[t].din, Unwrap(loc[t].now))
              /\ info # MockInfo(info.date)
              /\ loc[t].din = Some(<<"1","0","/","5","/","2","0","2","3">>) => info.date = <<"2","0","2","3","-","1","0","-","0","5">>

\* C18 witness: a `get` with GrpcMock and the date 10/5/2023 has returned
\* after the connection failed.
C18_Witness ==
    /\ GrpcConnectFailed("main")
    /\ loc["main"].cmd = "get_weather"
    /\ loc["main"].din = Some(<<"1","0","/","5","/","2","0","2","3">>)
    /\ loc["main"].info # None

\* The Mock backend of thread t has returned.
MockReturned(t) == loc[t].prov = Some("Mock") /\ loc[t].fetched /\ pc[t] = "done"

\* C19: the Mock, whatever the credential, the location and the date
\* argument, returns Ok with Mock Country, Mock City, 20.0, 50 and Sunny
\* (Mock) and the normalized date argument as date; it makes no call and
\* leaves the config file alone; the result is a function of the date
\* argument and the UTC day, and 10/5/2023 gives 2023-10-05.
C19_MockReturnsFixedData ==
    \A t \in threads : MockReturned(t) =>
        /\ loc[t].ret.ok
        /\ loc[t].info =
              Some([country |-> "Mock Country", city |-> "Mock City",
                    date |-> normalize_date(loc[t].din, Unwrap(loc[t].now)),
                    temperature |-> 20, humidity |-> 50,
                    description |-> Some("Sunny (Mock)")])
        /\ loc[t].din = Some(<<"1","0","/","5","/","2","0","2","3">>) =>
              Unwrap(loc[t].info).date = <<"2","0","2","3","-","1","0","-","0","5">>
        /\ netCalls[t] = 0
        /\ loc[t].connects = 0
        /\ fs[LivePath] = loc[t].live0

\* C19 witness: the Mock, called with no key for Nowhere and 10/5/2023, has
\* returned the date 2023-10-05.
C19_Witness ==
    /\ MockReturned("main")
    /\ loc["main"].key = None
    /\ loc["main"].addr = Some(<<"N","o","w","h","e","r","e">>)
    /\ loc["main"].din = Some(<<"1","0","/","5","/","2","0","2","3">>)
    /\ loc["main"].info # None
    /\ Unwrap(loc["main"].info).date = <<"2","0","2","3","-","1","0","-","0","5">>

\* A string of the shape YYYY-MM-DD: four digits, two digits and two digits
\* with hyphens between.
IsIsoDate(s) ==
    /\ Len(s) = 10
    /\ \A i \in {1, 2, 3, 4, 6, 7, 9, 10} : IsDigit(s[i])
    /\ s[5] = "-"
    /\ s[8] = "-"

\* normalize_date has run in thread t.
Normalized(t) == loc[t].date # None

\* C20: normalize_date returns, for an absent date and for every string, a
\* string of the shape YYYY-MM-DD and never an error; for a string that is
\* in none of the six formats it returns what it returns for an absent
\* date, today's UTC date.
C20_NormalizeAlwaysIsoDate ==
    \A t \in threads : Normalized(t) =>
        LET date == Unwrap(loc[t].date)
            today == Unwrap(loc[t].now)
        IN  /\ IsIsoDate(date)
            /\ loc[t].din = None => date = format(today, POSSIBLE_FORMATS[1])
            /\ (loc[t].din # None
                    /\ \A i \in 1..Len(POSSIBLE_FORMATS) :
                          parse_from_str(Unwrap(loc[t].din), POSSIBLE_FORMATS[i]) = None) =>
                  date = format(today, POSSIBLE_FORMATS[1])

\* C20 witness: normalize_date has returned +10000-01-01 for the date
\* argument +10000-01-01.
C20_Witness ==
    /\ Normalized("main")
    /\ loc["main"].din = Some(<<"+","1","0","0","0","0","-","0","1","-","0","1">>)
    /\ loc["main"].date = Some(<<"+","1","0","0","0","0","-","0","1","-","0","1">>)

\* C21: a calendar date written in one of the six formats (YYYY-MM-DD,
\* DD.MM.YYYY, MM/DD/YYYY, DD-MM-YYYY, DD Mon YYYY, YYYY/MM/DD) is normalized
\* to its ISO string: the formats are tried in this order, none before the
\* one it is written in parses it, and that one yields the date itself; the
\* slash date 10/5/2023 is read month first.
C21_WrittenDateNormalizesToItself ==
    \A t \in threads : Normalized(t) =>
        /\ \A d \in Dates, i \in 1..Len(POSSIBLE_FORMATS) :
              loc[t].din = Some(format(d, POSSIBLE_FORMATS[i])) =>
                  /\ \A j \in 1..(i - 1) :
                        parse_from_str(Unwrap(loc[t].din), POSSIBLE_FORMATS[j]) = None
                  /\ parse_from_str(Unwrap(loc[t].din), POSSIBLE_FORMATS[i]) = Some(d)
                  /\ loc[t].date =
                        Some(PadZero(ToDigits(d.year), 4) \o <<"-">> \o
                             PadZero(ToDigits(d.month), 2) \o <<"-">> \o
                             PadZero(ToDigits(d.day), 2))
        /\ loc[t].din = Some(<<"1","0","/","5","/","2","0","2","3">>) =>
              loc[t].date = Some(<<"2","0","2","3","-","1","0","-","0","5">>)

\* C21 witness: 10 May 2023 written month first with slashes, 05/10/2023, a
\* string the day-first reading takes for 5 October, has been normalized to
\* 2023-05-10.
C21_Witness ==
    /\ Normalized("main")
    /\ loc["main"].din = Some(<<"0","5","/","1","0","/","2","0","2","3">>)
    /\ loc["main"].date = Some(<<"2","0","2","3","-","0","5","-","1","0">>)

(***************************************************************************)
(* Claims about remove_alias and set_default_alias, checked under Spec     *)
(***************************************************************************)
\* remove_alias(alias) has returned in thread t.
RemoveAliasDone(t) == pc[t] = "done" /\ loc[t].cmd = "remove_alias"

\* C22: remove_alias(a) takes a out of addresses when it is there, unsets
\* default_alias exactly when it was a and makes no other alias the default,
\* leaves every other alias, providers and default_provider as they were,
\* and returns Ok also when a was not there: only a failed save makes it
\* return an error.
C22_RemoveAliasFrame ==
    \A t \in threads : RemoveAliasDone(t) =>
        LET a == loc[t].args[1]
            before == loc[t].s0
            after == settings[ProcOf(t)]
        IN  /\ DOMAIN after.addresses = DOMAIN before.addresses \ {a}
            /\ \A k \in DOMAIN after.addresses : after.addresses[k] = before.addresses[k]
            /\ after.default_alias =
                  IF before.default_alias = Some(a) THEN None ELSE before.default_alias
            /\ after.providers = before.providers
            /\ after.default_provider = before.default_provider
            /\ ~loc[t].ret.ok => (loc[t].ret.err.kind = "Io" /\ faults > 0)

\* C22 witness: remove_alias of the default alias, with another alias in
\* addresses, has returned Ok; the other alias is still there and no alias
\* is the default.
C22_Witness ==
    /\ RemoveAliasDone("main")
    /\ loc["main"].ret.ok
    /\ loc["main"].s0.default_alias = Some(loc["main"].args[1])
    /\ DOMAIN settings["P1"].addresses # {}
    /\ DOMAIN loc["main"].s0.addresses # DOMAIN settings["P1"].addresses
    /\ settings["P1"].default_alias = None

\* set_alias(alias, None), that is set_default_alias(alias), has returned.
SetDefaultDone(t) == pc[t] = "done" /\ loc[t].cmd = "set_default_alias"

\* C23: set_alias(alias, None) makes alias the default when it is a key of
\* addresses and changes nothing else; when it is no key it returns the
\* not-found error, and settings and config file are what they were.
C23_SetDefaultNeedsExistingAlias ==
    \A t \in threads : SetDefaultDone(t) =>
        LET alias == loc[t].args[1]
            after == settings[ProcOf(t)]
        IN  IF alias \in DOMAIN after.addresses
            THEN /\ after = [loc[t].s0 EXCEPT !.default_alias = Some(alias)]
                 /\ ~loc[t].ret.ok => (loc[t].ret.err.kind = "Io" /\ faults > 0)
            ELSE /\ ~loc[t].ret.ok
                 /\ loc[t].ret.err.kind = "AliasNotFound"
                 /\ loc[t].s0 = Unloaded
                 /\ after = clean[ProcOf(t)]
                 /\ fs[LivePath] = loc[t].live0

\* C23 witness: set_alias(b, None) on a config with the aliases a and b and
\* the default a has returned Ok, and b is the default.
C23_Witness ==
    /\ SetDefaultDone("main")
    /\ loc["main"].ret.ok
    /\ loc["main"].args[1] = AliasPool[2]
    /\ loc["main"].s0.default_alias = Some(AliasPool[1])
    /\ AliasPool[1] \in DOMAIN settings["P1"].addresses
    /\ settings["P1"].default_alias = Some(AliasPool[2])

(***************************************************************************)
(* Claims about the rename step of save_file_atomic, checked under Spec    *)
(***************************************************************************)
TmpPath == with_extension(SettingsFile, "tmp")

RenameStep(t) == pc[t] = "sv_rename" /\ pc'[t] = "wm_exit"

\* What every rename step does besides the removal of the temporary file.
RenameOutcome(t) ==
    IF loc'[t].ret.ok
    THEN /\ ~fs'[TmpPath].exists
         /\ fs'[LivePath] = fs[TmpPath]
    ELSE /\ loc'[t].ret.err = IoError("rename")
         /\ fs'[LivePath] = fs[LivePath]

\* C24 as stated: a failed rename always leaves no temporary file behind, returns
\* the error of the rename and keeps the live file; a successful save leaves
\* no temporary file.
C24_FailedRenameAlwaysDeletesTmp ==
    [][\A t \in threads : RenameStep(t) =>
          /\ RenameOutcome(t)
          /\ ~loc'[t].ret.ok => ~fs'[TmpPath].exists]_vars

\* C24, amended: a failed rename returns the error of the rename and keeps the
\* live file; the temporary file is deleted, or is left as it was when the
\* deletion itself fails; a successful save leaves no temporary file.
C24_FailedRenameTriesToDeleteTmp ==
    [][\A t \in threads : RenameStep(t) =>
          /\ RenameOutcome(t)
          /\ ~loc'[t].ret.ok => (~fs'[TmpPath].exists \/ fs'[TmpPath] = fs[TmpPath])]_vars

\* A rename has failed, the temporary file is gone and the live file is the
\* one the save found.
C24_Witness ==
    \E t \in threads :
        /\ pc[t] = "wm_exit"
        /\ loc[t].ret = Err(IoError("rename"))
        /\ ~fs[TmpPath].exists
        /\ fs[LivePath] = lastSave.old
        /\ fs[LivePath].exists
        /\ fs[LivePath].data # lastSave.new

(***************************************************************************)
(* Claim about the mapping of the RPC Mock's response, under SpecFetch     *)
(***************************************************************************)
\* The WeatherInfo that holds each field of the response as it was sent.
MappedOneToOne(r) ==
    WeatherInfo(r.country, r.city, r.date, r.temperature, r.humidity, Some(r.description))

\* C25: when the call of the RPC Mock succeeds, the result is the response
\* field by field; its humidity is the humidity sent, also above 255.
C25_GrpcResultIsResponse ==
    [][\A t \in threads :
          (pc[t] = "grpc_call" /\ pc'[t] = "done" /\ loc'[t].ret.ok) =>
              \E response \in GrpcResponses :
                  /\ response.ok
                  /\ loc'[t].info = Some(MappedOneToOne(response.body[1]))]_vars

\* The remote has answered, and the result holds a humidity of 300 modulo 256.
C25_Witness ==
    \E t \in threads :
        /\ pc[t] = "done"
        /\ loc[t].info # None
        /\ Unwrap(loc[t].info).country = "Remote Country"
        /\ Unwrap(loc[t].info).humidity = 44
        /\ \E response \in GrpcResponses : response.ok /\ response.body[1].humidity = 300

(***************************************************************************)
(* Claim about the default alias over runs of the alias commands, Spec     *)
(***************************************************************************)
\* default_alias is unset or names a key of addresses.
NoDanglingDefault(s) ==
    s.default_alias = None \/ Unwrap(s.default_alias) \in DOMAIN s.addresses

AliasCommandDone(t) ==
    /\ pc[t] = "done"
    /\ loc[t].cmd \in {"set_alias", "set_default_alias", "remove_alias"}

\* C26: an alias command that starts from settings whose default_alias is
\* unset or names a key of addresses ends with such settings, in memory and
\* in the config file the next command loads; so does every sequence of
\* them.  The settings a command starts from are those loaded from the file
\* it found.
C26_NoDanglingDefaultAlias ==
    \A t \in threads :
        (AliasCommandDone(t) /\ NoDanglingDefault(LoadOrDefault(loc[t].live0))) =>
            /\ NoDanglingDefault(settings[ProcOf(t)])
            /\ NoDanglingDefault(LoadOrDefault(fs[LivePath]))

\* The second command of a sequence: the file it found was written by a
\* set_alias and names the default a; remove_alias(a) has unset the default.
C26_Witness ==
    \E t \in threads :
        /\ RemoveAliasDone(t)
        /\ loc[t].ret.ok
        /\ LoadOrDefault(loc[t].live0).default_alias = Some(loc[t].args[1])
        /\ loc[t].args[1] \in DOMAIN LoadOrDefault(loc[t].live0).addresses
        /\ LoadOrDefault(fs[LivePath]).default_alias = None
        /\ ~(loc[t].args[1] \in DOMAIN LoadOrDefault(fs[LivePath]).addresses)

(***************************************************************************)
(* Claim about the provider settings over runs of set_provider, SpecRT     *)
(***************************************************************************)
CanonicalIds == {id(v) : v \in Providers}

\* default_provider is unset or the id of a variant that is the Offline Mock
\* or has a non-empty key stored; every key of providers is an id.
ProvidersWellFormed(s) ==
    /\ \/ s.default_provider = None
       \/ \E v \in Providers :
             /\ s.default_provider = Some(id(v))
             /\ is_mock(v) \/ HasKey(s, id(v))
    /\ DOMAIN s.providers \subseteq CanonicalIds

SetProviderReturned(t) == pc[t] = "done" /\ loc[t].cmd = "set_provider"

\* C27: default Settings have well-formed provider settings, and a
\* set_provider that starts from well-formed ones (those loaded from the file
\* it found) ends with well-formed ones, in memory and in the file the next
\* call loads; so every sequence of set_provider calls from default Settings
\* keeps them well-formed.
C27_ProvidersStayWellFormed ==
    /\ ProvidersWellFormed(DefaultSettings)
    /\ \A t \in threads :
          (SetProviderReturned(t) /\ ProvidersWellFormed(LoadOrDefault(loc[t].live0))) =>
              /\ ProvidersWellFormed(settings[ProcOf(t)])
              /\ ProvidersWellFormed(LoadOrDefault(fs[LivePath]))

\* A second set_provider of a sequence from default Settings: the file it
\* found has the default settings' entries, the key of ow and ow as the
\* default; a call without a key has made the keyless-by-default grpc the
\* default through its pre-configured key.
C27_Witness ==
    \E t \in threads :
        LET before == LoadOrDefault(loc[t].live0)
            after == LoadOrDefault(fs[LivePath])
        IN  /\ SetProviderReturned(t)
            /\ loc[t].ret.ok
            /\ DOMAIN before.providers = DOMAIN DefaultSettings.providers \cup {id("OpenWeather")}
            /\ before.default_provider = Some(id("OpenWeather"))
            /\ loc[t].args[2] = None
            /\ after.default_provider = Some(id("GrpcMock"))
            /\ settings[ProcOf(t)] = after

(***************************************************************************)
(* SpecProcs: two CLI processes on the same config path.  Each loads the   *)
(* file and runs one set_alias, the first for alias a, the second for      *)
(* alias b; their steps interleave in any order.  No step fails unless     *)
(* the file system makes it fail.                                          *)
(***************************************************************************)
\* The config file the two processes find.
InitProcsFiles ==
    { NoFile,
      File(<< <<"open">>, <<"addresses", << <<AliasPool[3], <<"C">> >> >> >>,
              <<"close">> >>, TRUE) }

InitProcs ==
    /\ \E f \in InitProcsFiles :
          fs = [x \in Paths |-> IF x = SettingsFile THEN f ELSE NoFile]
    /\ threads = {"main", "p2"}
    /\ InitCommon

NextProcs ==
    \/ \E t \in threads : Open(t)
    \/ \E t \in threads :
          SetAlias(t, IF t = "main" THEN AliasPool[1] ELSE AliasPool[2], Some(<<"L">>))
    \/ \E t \in threads : WmLock(t)
    \/ \E t \in threads : WmMutate1(t)
    \/ \E t \in threads : WmMutate2(t)
    \/ \E t \in threads : SaveCreateDir(t, TRUE)
    \/ \E t \in threads : SaveCreateTmp(t, TRUE)
    \/ \E t \in threads : SaveSerialize(t, TRUE)
    \/ \E t \in threads : SaveFlush(t, TRUE)
    \/ \E t \in threads : SaveSync(t, TRUE)
    \/ \E t \in threads :
          LET there == fs[with_extension(SettingsFile, "tmp")].exists
          IN  SaveRename(t, there, there)
    \/ \E t \in threads : WmExit(t)

SpecProcs == InitProcs /\ [][NextProcs]_vars

(***************************************************************************)
(* Claims about two processes that save at overlapping times, SpecProcs    *)
(***************************************************************************)
\* The documents the two processes write.
WrittenDocs ==
    { Serialize(settings[ProcOf(t)]) :
        t \in {u \in threads : pc[u] \in SavePcs \cup {"wm_exit", "done"}} }

\* The live file is the one the processes found, or a document that one of
\* them wrote completely and synced.
LiveIsWhole ==
    \/ fs[LivePath] \in InitProcsFiles
    \/ fs[LivePath].synced /\ fs[LivePath].data \in WrittenDocs

\* C28: with two processes saving to the same path at overlapping times the
\* live file is always a document that one of them wrote completely and
\* synced (or the file they found), never a truncated or mixed one, and no
\* save fails.
C28_OverlappingSavesInstallWholeDocuments ==
    /\ LiveIsWhole
    /\ \A t \in threads : pc[t] \in {"wm_exit", "done"} => loc[t].ret.ok

\* The first process has renamed the temporary file after the second one
\* truncated it: the live file is empty, and the first save returned Ok.
C28_Witness ==
    /\ fs[LivePath].exists
    /\ fs[LivePath].data = <<>>
    /\ pc["main"] = "wm_exit"
    /\ loc["main"].ret.ok
    /\ pc["p2"] = "sv_ser"

\* Both processes have run their command and both commands returned Ok.
BothSucceeded == \A t \in threads : pc[t] = "done" /\ loc[t].ret.ok

\* C29: when both processes have loaded the file and completed their
\* set_alias successfully, the config file holds alias a of the first and
\* alias b of the second, whatever the interleaving.
C29_NoUpdateLost ==
    BothSucceeded =>
        {AliasPool[1], AliasPool[2]} \subseteq DOMAIN LoadOrDefault(fs[LivePath]).addresses

\* Both commands returned Ok and the file is the whole document of the second
\* process: it holds alias b and the alias both found, and not alias a.
C29_Witness ==
    /\ BothSucceeded
    /\ fs[LivePath] = File(Serialize(settings["P2"]), TRUE)
    /\ DOMAIN LoadOrDefault(fs[LivePath]).addresses = {AliasPool[2], AliasPool[3]}
    /\ AliasPool[1] \in DOMAIN settings["P1"].addresses

(***************************************************************************)
(* Claim about set-default racing remove_alias on one store, SpecThreads   *)
(***************************************************************************)
\* Thread t has run set_alias(a, None) and thread u remove_alias(a).
RacedOn(t, u, a) ==
    /\ SetDefaultDone(t) /\ loc[t].args[1] = a
    /\ RemoveAliasDone(u) /\ loc[u].args[1] = a

\* C30: when set_alias(a, None) and remove_alias(a) run on two threads of one
\* store, then in every interleaving the final settings do not name a as the
\* default while a is no key of addresses.
C30_SetDefaultAtomicWithCheck ==
    \A t \in threads, u \in threads, a \in ValidAliases :
        RacedOn(t, u, a) =>
            ~(/\ settings[ProcOf(t)].default_alias = Some(a)
              /\ ~(a \in DOMAIN settings[ProcOf(t)].addresses))

\* set_alias(a, None) found a, remove_alias(a) then removed it, and the
\* closure of set_default_alias made a the default: both returned Ok, the
\* default dangles in memory and in the file.
C30_Witness ==
    \E t \in threads, u \in threads, a \in ValidAliases :
        /\ RacedOn(t, u, a)
        /\ loc[t].ret.ok /\ loc[u].ret.ok
        /\ a \in DOMAIN loc[u].s0.addresses
        /\ ~(a \in DOMAIN loc[t].s0.addresses)
        /\ settings[ProcOf(t)].default_alias = Some(a)
        /\ ~NoDanglingDefault(LoadOrDefault(fs[LivePath]))

=============================================================================
